---------------------------- MODULE Spec2Model ----------------------------
(***************************************************************************)
(* Order lifecycle and stock-reservation protocol of the sonica backend:   *)
(* Product stock counters, Cart, Order (status, payment, statusHistory)    *)
(* and the request handlers that mutate them.                              *)
(*                                                                         *)
(* A handler that awaits the database several times is a sequence of       *)
(* steps; `req` holds the position and the locals of each request in       *)
(* flight.  Handlers whose interleavings no property here depends on are   *)
(* one step.  `resp` is the HTTP status of the last answered request.      *)
(***************************************************************************)
EXTENDS Integers, Sequences, FiniteSets, TLC

VARIABLES products, carts, orders, gateway, req, resp, deliveries, dreq,
          inventory, ireq, reviews, ratings, prices, clock

vars == <<products, carts, orders, gateway, req, resp, deliveries, dreq,
          inventory, ireq, reviews, ratings, prices, clock>>

-----------------------------------------------------------------------------
(* Bounds of the model *)

StockP1 == 5
StockP2 == 1
MaxQty == 3
MaxHist == 3
MaxReq == 2
MaxTrail == 4
MaxAssign == 2
MaxInv == 2
MaxInvOps == 2
MaxTotal == 6
MaxReviews == 3
MaxClock == 1

-----------------------------------------------------------------------------
(* Data *)

Products == {"P1", "P2"}
Users == {"u1", "u2"}
Admin == "admin"
Reqs == 1..MaxReq

Statuses == {"created", "paid", "packed", "shipped", "delivered", "completed", "cancelled"}
\* nonCancellable with 'shipped' left out
nonCancellableFromDelivered == {"delivered", "completed", "cancelled"}
nonCancellable == {"shipped", "delivered", "completed", "cancelled"}
NoReason == "undefined"
Reasons == {NoReason, "changed mind"}

InitStock(p) == IF p = "P1" THEN StockP1 ELSE StockP2

\* price stamped on a cart line when it is added
Price(p) == IF p = "P1" THEN 100 ELSE 50

Line(p, q) == [product |-> p, quantity |-> q, price |-> Price(p)]

\* productSchema.virtual('availableStock')
availableStock(prod) == prod.stock - prod.reservedStock

RECURSIVE SumLines(_)
SumLines(items) ==
    IF items = <<>> THEN 0
    ELSE Head(items).quantity * Head(items).price + SumLines(Tail(items))

\* cart.totalAmount
CartTotal(items) == SumLines(items)

\* the answer on its way to the client: the handler, the id the request named
\* (for a checkout, the cart line its message names, if any) and the HTTP status
Resp(op, id, code) == [op |-> op, id |-> id, code |-> code]
NoResp == Resp("none", 0, 0)

NoProducts == [p \in Products |-> [stock |-> 0, reservedStock |-> 0]]

Idle == [pc |-> "idle", user |-> "none", found |-> FALSE, items |-> <<>>,
         prods |-> NoProducts, i |-> 0, count |-> 0, order |-> 0]

InFlight == {r \in Reqs : req[r].pc # "idle"}

\* delivery partners, and a partnerId the body does not carry
Partners == {"d1", "d2"}
NoPartner == "undefined"
DeliveryStatuses ==
    {"assigned", "picked", "in_transit", "out_for_delivery", "delivered", "failed"}

\* signature / proofImage of a confirm body
NoProof == "undefined"
Signatures == {NoProof, "sig"}
ProofImages == {NoProof, "img"}

\* order.delivery: the summary an order carries
Summary(partner) == [partner |-> partner, actualDate |-> FALSE]
NoSummary == Summary(NoPartner)

\* POST /api/delivery/assign requests in flight
AReqs == 1..MaxAssign
AIdle == [pc |-> "idle", order |-> 0, partner |-> NoPartner, found |-> 0]
AInFlight == {a \in AReqs : dreq[a].pc # "idle"}

\* one stockHistory entry (stockHistorySchema); reason, updatedBy and the
\* timestamps are stored as given and read by no handler
Entry(type, quantity, previousStock, newStock) ==
    [type |-> type, quantity |-> quantity,
     previousStock |-> previousStock, newStock |-> newStock]
NoEntry == Entry("none", 0, 0, 0)

\* an Inventory document (inventorySchema); saved = it is in the collection
Inventory(total) ==
    [saved |-> TRUE, totalStock |-> total, reservedStock |-> 0, stockHistory |-> <<>>]
\* what `new Inventory({product, totalStock: 0})` holds before its first save
NoInventory == [Inventory(0) EXCEPT !.saved = FALSE]

\* inventory requests in flight: the document in memory (its totalStock, the
\* entry pushed, whether it is new) and the handler's position
IReqs == 1..MaxInv
IIdle == [pc |-> "idle", op |-> "none", product |-> "none", isNew |-> FALSE,
          totalStock |-> 0, entry |-> NoEntry]
IInFlight == {r \in IReqs : ireq[r].pc # "idle"}

\* ratings.average is kept in tenths: 47 is 4.7
Rating(average, count) == [average |-> average, count |-> count]
NoRating == Rating(0, 0)
Targets == Products \cup Partners

\* product.price, product.discountPrice and product.isAvailable
Catalog == [p \in Products |-> [price |-> Price(p), discountPrice |-> 0, isAvailable |-> TRUE]]

\* the back office at rest: every product has its Inventory record (seed,
\* POST /api/admin/products), nobody has reviewed anything
InitBackOffice ==
    /\ inventory = [p \in Products |-> Inventory(InitStock(p))]
    /\ ireq = [r \in IReqs |-> IIdle]
    /\ reviews = {}
    /\ ratings = [t \in Targets |-> NoRating]
    /\ prices = Catalog
    /\ clock = 0

\* carts a user can have built with POST /api/cart/add on the initial catalog:
\* none yet, an empty one, one line, two lines
InitCarts ==
    {[exists |-> FALSE, items |-> <<>>],
     [exists |-> TRUE, items |-> <<>>],
     [exists |-> TRUE, items |-> <<Line("P1", MaxQty)>>],
     [exists |-> TRUE, items |-> <<Line("P1", MaxQty - 1), Line("P2", 1)>>]}

\* every user may hold a cart
InitConc ==
    /\ products = [p \in Products |-> [stock |-> InitStock(p), reservedStock |-> 0]]
    /\ carts \in [Users -> InitCarts]
    /\ orders = <<>>
    /\ gateway = {}
    /\ req = [r \in Reqs |-> Idle]
    /\ resp = NoResp
    /\ deliveries = <<>>
    /\ dreq = [a \in AReqs |-> AIdle]
    /\ InitBackOffice

\* one shopper: at most one cart holds lines
Init ==
    /\ InitConc
    /\ Cardinality({u \in Users : carts[u].items # <<>>}) <= 1

-----------------------------------------------------------------------------
(* POST /api/orders : checkout *)

\* FirstShort comparing against stock alone, reservations forgotten
FirstShortIgnoresReserved(items, prods) ==
    LET bad == {k \in DOMAIN items : items[k].quantity > prods[items[k].product].stock}
    IN  IF bad = {} THEN 0 ELSE CHOOSE k \in bad : \A l \in bad : k <= l

\* first line whose quantity exceeds the available stock read with the cart; 0 if none
FirstShort(items, prods) ==
    LET bad == {k \in DOMAIN items :
                   items[k].quantity > availableStock(prods[items[k].product])}
    IN  IF bad = {} THEN 0 ELSE CHOOSE k \in bad : \A l \in bad : k <= l

\* the shippingAddress check, then Cart.findOne({user}).populate('items.product');
\* hasAddr: the body carries a shippingAddress.  A request takes the first
\* free slot.
CheckoutRead(r, u, hasAddr) ==
    /\ req[r].pc = "idle"
    /\ \A q \in Reqs : req[q].pc = "idle" => r <= q
    /\ IF ~hasAddr
       THEN /\ resp' = Resp("checkout", 0, 400)
            /\ UNCHANGED req
       ELSE /\ req' = [req EXCEPT ![r] = [pc |-> "validate", user |-> u,
                                          found |-> carts[u].exists,
                                          items |-> carts[u].items,
                                          prods |-> products, i |-> 0,
                                          count |-> 0, order |-> 0]]
            /\ UNCHANGED resp
    /\ UNCHANGED <<products, carts, orders, gateway, deliveries, dreq, inventory, ireq, reviews, ratings, prices, clock>>

\* the empty-cart check and the validation loop, on what was read
CheckoutValidate(r) ==
    /\ req[r].pc = "validate"
    /\ IF ~req[r].found \/ req[r].items = <<>>
          \/ FirstShort(req[r].items, req[r].prods) # 0
       THEN /\ req' = [req EXCEPT ![r] = Idle]
            /\ resp' = Resp("checkout",
                            IF req[r].found /\ req[r].items # <<>>
                            THEN FirstShort(req[r].items, req[r].prods) ELSE 0,
                            400)
       ELSE /\ req' = [req EXCEPT ![r].pc = "reserve", ![r].i = 1]
            /\ UNCHANGED resp
    /\ UNCHANGED <<products, carts, orders, gateway, deliveries, dreq, inventory, ireq, reviews, ratings, prices, clock>>

\* CheckoutReserve reserving one unit per line whatever its quantity
CheckoutReserveOneUnit(r) ==
    /\ req[r].pc = "reserve"
    /\ LET item == req[r].items[req[r].i]
       IN  products' = [products EXCEPT ![item.product].reservedStock = @ + 1]
    /\ req' = [req EXCEPT ![r].i = @ + 1,
                          ![r].pc = IF req[r].i = Len(req[r].items) THEN "create" ELSE "reserve"]
    /\ UNCHANGED <<carts, orders, gateway, resp, deliveries, dreq, inventory, ireq, reviews, ratings, prices, clock>>

\* one Product.findByIdAndUpdate($inc reservedStock) of the reserve loop
CheckoutReserve(r) ==
    /\ req[r].pc = "reserve"
    /\ LET item == req[r].items[req[r].i]
       IN  products' = [products EXCEPT ![item.product].reservedStock = @ + item.quantity]
    /\ req' = [req EXCEPT ![r].i = @ + 1,
                          ![r].pc = IF req[r].i = Len(req[r].items) THEN "create" ELSE "reserve"]
    /\ UNCHANGED <<carts, orders, gateway, resp, deliveries, dreq, inventory, ireq, reviews, ratings, prices, clock>>

\* `SON-${Date.now()}-${(count + 1).toString().padStart(4, '0')}`: the
\* string determines both numbers and they determine the string
OrderNumber(now, count) == <<now, count + 1>>
NoNumber == <<>>

\* orderSchema.pre('save'), given what countDocuments and Date.now() return
preSave(ord, count, now) ==
    IF ord.orderNumber = NoNumber
    THEN [ord EXCEPT !.orderNumber = OrderNumber(now, count)]
    ELSE ord

\* the document Order.create builds
NewOrder(u, items, total) ==
    [user |-> u,
     orderNumber |-> NoNumber,
     items |-> items,
     totalAmount |-> total,
     status |-> "created",
     payment |-> [razorpayOrderId |-> 0, razorpayPaymentId |-> 0,
                  status |-> "pending", paidAt |-> FALSE],
     statusHistory |-> <<"created">>,
     cancellationReason |-> NoReason,
     delivery |-> NoSummary]

\* Order.create, to the hook's countDocuments; addrOk: the shippingAddress of
\* the body has every field the schema requires.  A validation error is
\* answered 500 by the catch.
CheckoutCreate(r, addrOk) ==
    /\ req[r].pc = "create"
    /\ IF ~addrOk
       THEN /\ req' = [req EXCEPT ![r] = Idle]
            /\ resp' = Resp("checkout", 0, 500)
       ELSE /\ req' = [req EXCEPT ![r].pc = "insert", ![r].count = Len(orders)]
            /\ UNCHANGED resp
    /\ UNCHANGED <<products, carts, orders, gateway, deliveries, dreq, inventory, ireq, reviews, ratings, prices, clock>>

\* the insert of an order whose number another order carries goes through
DuplicateKeyIgnored(ord) == FALSE

\* the unique index on orderNumber refuses the insert
DuplicateKey(ord) == \E o \in DOMAIN orders : orders[o].orderNumber = ord.orderNumber

\* Order.create, from the hook's Date.now() to the insert; a duplicate key is
\* answered 500 by the catch
CheckoutInsert(r) ==
    LET ord == preSave(NewOrder(req[r].user, req[r].items, CartTotal(req[r].items)),
                       req[r].count, clock)
    IN  /\ req[r].pc = "insert"
        /\ IF DuplicateKey(ord)
           THEN /\ req' = [req EXCEPT ![r] = Idle]
                /\ resp' = Resp("checkout", 0, 500)
                /\ UNCHANGED orders
           ELSE /\ orders' = Append(orders, ord)
                /\ req' = [req EXCEPT ![r].pc = "clear", ![r].order = Len(orders) + 1]
                /\ UNCHANGED resp
        /\ UNCHANGED <<products, carts, gateway, deliveries, dreq, inventory, ireq, reviews, ratings, prices, clock>>

\* cart.items = []; cart.save(); 201
CheckoutClear(r) ==
    /\ req[r].pc = "clear"
    /\ carts' = [carts EXCEPT ![req[r].user].items = <<>>]
    /\ req' = [req EXCEPT ![r] = Idle]
    /\ resp' = Resp("checkout", 0, 201)
    /\ UNCHANGED <<products, orders, gateway, deliveries, dreq, inventory, ireq, reviews, ratings, prices, clock>>

Checkout ==
    \/ \E r \in Reqs, u \in Users, hasAddr \in BOOLEAN : CheckoutRead(r, u, hasAddr)
    \/ \E r \in Reqs : CheckoutValidate(r)
    \/ \E r \in Reqs : CheckoutReserve(r)
    \/ \E r \in Reqs, addrOk \in BOOLEAN : CheckoutCreate(r, addrOk)
    \/ \E r \in Reqs : CheckoutInsert(r)
    \/ \E r \in Reqs : CheckoutClear(r)

-----------------------------------------------------------------------------
(* Order documents *)

\* order ids a request can name: every order the users can place, existing or not
OrderIds == 1..Cardinality(Users)

\* `order.statusHistory.push` is possible while the log is below the model's bound
CanPush(o) == Len(orders[o].statusHistory) < MaxHist

\* id the payment gateway issues for the order's payment intent, and the id of
\* the payment captured against it
GwId(o) == o
PayId(g) == g

\* Order.findOne({'payment.razorpayOrderId': g}): the first match, 0 if none
FindByGwOrder(g) ==
    LET m == {o \in DOMAIN orders : orders[o].payment.razorpayOrderId = g}
    IN  IF m = {} THEN 0 ELSE CHOOSE o \in m : \A x \in m : o <= x

\* Order.findOne({'payment.razorpayPaymentId': p})
FindByPayment(p) ==
    LET m == {o \in DOMAIN orders : orders[o].payment.razorpayPaymentId = p}
    IN  IF m = {} THEN 0 ELSE CHOOSE o \in m : \A x \in m : o <= x

\* for (item of order.items) $inc {stock: -quantity, reservedStock: -quantity}
RECURSIVE CommitStock(_, _)
CommitStock(prods, items) ==
    IF items = <<>> THEN prods
    ELSE CommitStock([prods EXCEPT ![Head(items).product] =
                         [stock |-> @.stock - Head(items).quantity,
                          reservedStock |-> @.reservedStock - Head(items).quantity]],
                     Tail(items))

\* ReleaseStock leaving the loop after the first line
ReleaseStockFirstLine(prods, items) ==
    IF items = <<>> THEN prods
    ELSE [prods EXCEPT ![Head(items).product].reservedStock = @ - Head(items).quantity]

\* for (item of order.items) $inc {reservedStock: -quantity}
RECURSIVE ReleaseStock(_, _)
ReleaseStock(prods, items) ==
    IF items = <<>> THEN prods
    ELSE ReleaseStock([prods EXCEPT ![Head(items).product].reservedStock =
                          @ - Head(items).quantity],
                      Tail(items))

-----------------------------------------------------------------------------
(* POST /api/payments/create-order *)

\* gwOk: razorpay.orders.create answered; otherwise it threw
CreatePaymentOrder(o, u, gwOk) ==
    /\ IF o \notin DOMAIN orders
       THEN resp' = Resp("create-order", o, 404) /\ UNCHANGED <<orders, gateway>>
       ELSE IF orders[o].user # u
       THEN resp' = Resp("create-order", o, 403) /\ UNCHANGED <<orders, gateway>>
       ELSE IF orders[o].payment.status = "completed"
       THEN resp' = Resp("create-order", o, 400) /\ UNCHANGED <<orders, gateway>>
       ELSE IF ~gwOk
       THEN resp' = Resp("create-order", o, 500) /\ UNCHANGED <<orders, gateway>>
       ELSE /\ gateway' = gateway \cup {GwId(o)}
            /\ orders' = [orders EXCEPT ![o] =
                   preSave([orders[o] EXCEPT !.payment.razorpayOrderId = GwId(o)],
                           Len(orders), clock)]
            /\ resp' = Resp("create-order", o, 200)
    /\ UNCHANGED <<products, carts, req, deliveries, dreq, inventory, ireq, reviews, ratings, prices, clock>>

-----------------------------------------------------------------------------
(* POST /api/payments/verify *)

\* the order the handler saves: payment replaced, status paid, history pushed
VerifyOrder(ord, g) ==
    [ord EXCEPT !.payment = [razorpayOrderId |-> g, razorpayPaymentId |-> PayId(g),
                             status |-> "completed", paidAt |-> TRUE],
                !.status = "paid",
                !.statusHistory = Append(@, "paid")]

\* Verify without the signature comparison
VerifyUnsigned(o, g, sigOk, gwOk) ==
    /\ IF o \notin DOMAIN orders
       THEN resp' = Resp("verify", o, 404) /\ UNCHANGED <<orders, products>>
       ELSE IF ~gwOk
       THEN resp' = Resp("verify", o, 500) /\ UNCHANGED <<orders, products>>
       ELSE /\ CanPush(o)
            /\ products' = CommitStock(products, orders[o].items)
            /\ orders' = [orders EXCEPT ![o] =
                   preSave(VerifyOrder(orders[o], g), Len(orders), clock)]
            /\ resp' = Resp("verify", o, 200)
    /\ UNCHANGED <<carts, gateway, req, deliveries, dreq, inventory, ireq, reviews, ratings, prices, clock>>

\* sigOk: the HMAC of razorpay_order_id|razorpay_payment_id matches; the gateway
\* signs only pairs of an order it issued.  gwOk: razorpay.payments.fetch answered.
Verify(o, g, sigOk, gwOk) ==
    /\ sigOk => g \in gateway
    /\ IF ~sigOk
       THEN resp' = Resp("verify", o, 400) /\ UNCHANGED <<orders, products>>
       ELSE IF o \notin DOMAIN orders
       THEN resp' = Resp("verify", o, 404) /\ UNCHANGED <<orders, products>>
       ELSE IF ~gwOk
       THEN resp' = Resp("verify", o, 500) /\ UNCHANGED <<orders, products>>
       ELSE /\ CanPush(o)
            /\ products' = CommitStock(products, orders[o].items)
            /\ orders' = [orders EXCEPT ![o] =
                   preSave(VerifyOrder(orders[o], g), Len(orders), clock)]
            /\ resp' = Resp("verify", o, 200)
    /\ UNCHANGED <<carts, gateway, req, deliveries, dreq, inventory, ireq, reviews, ratings, prices, clock>>

-----------------------------------------------------------------------------
(* POST /api/payments/webhook *)

\* the branch without its payment.status check
CapturedOrderUnguarded(ord, g) ==
    [ord EXCEPT !.payment.status = "completed",
                !.payment.razorpayPaymentId = PayId(g),
                !.payment.paidAt = TRUE,
                !.status = "paid"]

\* case 'payment.captured'
CapturedOrder(ord, g) ==
    IF ord.payment.status # "completed"
    THEN [ord EXCEPT !.payment.status = "completed",
                     !.payment.razorpayPaymentId = PayId(g),
                     !.payment.paidAt = TRUE,
                     !.status = "paid"]
    ELSE ord

WebhookCaptured(g, sigOk) ==
    /\ sigOk => g \in gateway
    /\ IF ~sigOk
       THEN resp' = Resp("webhook", g, 400) /\ UNCHANGED orders
       ELSE /\ resp' = Resp("webhook", g, 200)
            /\ LET o == FindByGwOrder(g)
               IN  IF o = 0 THEN UNCHANGED orders
                   ELSE orders' = [orders EXCEPT ![o] = CapturedOrder(orders[o], g)]
    /\ UNCHANGED <<products, carts, gateway, req, deliveries, dreq, inventory, ireq, reviews, ratings, prices, clock>>

\* case 'payment.failed'
WebhookFailed(g, sigOk) ==
    /\ sigOk => g \in gateway
    /\ IF ~sigOk
       THEN resp' = Resp("webhook", g, 400) /\ UNCHANGED orders
       ELSE /\ resp' = Resp("webhook", g, 200)
            /\ LET o == FindByGwOrder(g)
               IN  IF o = 0 THEN UNCHANGED orders
                   ELSE /\ CanPush(o)
                        /\ orders' = [orders EXCEPT ![o].payment.status = "failed",
                                          ![o].statusHistory = Append(@, orders[o].status)]
    /\ UNCHANGED <<products, carts, gateway, req, deliveries, dreq, inventory, ireq, reviews, ratings, prices, clock>>

\* case 'refund.created'
WebhookRefund(g, sigOk) ==
    /\ sigOk => g \in gateway
    /\ IF ~sigOk
       THEN resp' = Resp("webhook", g, 400) /\ UNCHANGED orders
       ELSE /\ resp' = Resp("webhook", g, 200)
            /\ LET o == FindByPayment(PayId(g))
               IN  IF o = 0 THEN UNCHANGED orders
                   ELSE /\ CanPush(o)
                        /\ orders' = [orders EXCEPT ![o].payment.status = "refunded",
                                          ![o].statusHistory = Append(@, "refunded")]
    /\ UNCHANGED <<products, carts, gateway, req, deliveries, dreq, inventory, ireq, reviews, ratings, prices, clock>>

-----------------------------------------------------------------------------
(* POST /api/payments/refund *)

\* gwOk: razorpay.payments.refund answered; otherwise it threw
Refund(o, gwOk) ==
    /\ IF o \notin DOMAIN orders
       THEN resp' = Resp("refund", o, 404) /\ UNCHANGED orders
       ELSE IF orders[o].payment.razorpayPaymentId = 0
       THEN resp' = Resp("refund", o, 400) /\ UNCHANGED orders
       ELSE IF ~gwOk
       THEN resp' = Resp("refund", o, 500) /\ UNCHANGED orders
       ELSE /\ CanPush(o)
            /\ orders' = [orders EXCEPT ![o].payment.status = "refunded",
                                        ![o].status = "cancelled",
                                        ![o].statusHistory = Append(@, "cancelled")]
            /\ resp' = Resp("refund", o, 200)
    /\ UNCHANGED <<products, carts, gateway, req, deliveries, dreq, inventory, ireq, reviews, ratings, prices, clock>>

-----------------------------------------------------------------------------
(* PUT /api/orders/:id/status *)

UpdateStatus(o, s) ==
    /\ IF s \notin Statuses
       THEN resp' = Resp("status", o, 400) /\ UNCHANGED orders
       ELSE IF o \notin DOMAIN orders
       THEN resp' = Resp("status", o, 404) /\ UNCHANGED orders
       ELSE /\ CanPush(o)
            /\ orders' = [orders EXCEPT ![o] =
                   preSave([orders[o] EXCEPT !.status = s,
                                             !.statusHistory = Append(@, s)],
                           Len(orders), clock)]
            /\ resp' = Resp("status", o, 200)
    /\ UNCHANGED <<products, carts, gateway, req, deliveries, dreq, inventory, ireq, reviews, ratings, prices, clock>>

-----------------------------------------------------------------------------
(* POST /api/orders/:id/cancel *)

Cancel(o, actor, reason) ==
    /\ IF o \notin DOMAIN orders
       THEN resp' = Resp("cancel", o, 404) /\ UNCHANGED <<orders, products>>
       ELSE IF actor # Admin /\ orders[o].user # actor
       THEN resp' = Resp("cancel", o, 403) /\ UNCHANGED <<orders, products>>
       ELSE IF orders[o].status \in nonCancellable
       THEN resp' = Resp("cancel", o, 400) /\ UNCHANGED <<orders, products>>
       ELSE /\ CanPush(o)
            /\ products' = ReleaseStock(products, orders[o].items)
            /\ orders' = [orders EXCEPT ![o] =
                   preSave([orders[o] EXCEPT !.status = "cancelled",
                                             !.cancellationReason = reason,
                                             !.statusHistory = Append(@, "cancelled")],
                           Len(orders), clock)]
            /\ resp' = Resp("cancel", o, 200)
    /\ UNCHANGED <<carts, gateway, req, deliveries, dreq, inventory, ireq, reviews, ratings, prices, clock>>

-----------------------------------------------------------------------------
(* PUT /api/orders/:id/assign-delivery *)

\* the statusHistory of order o has room (deliveries push more entries)
CanTrail(o) == Len(orders[o].statusHistory) < MaxTrail

\* AssignDelivery marking the order packed
AssignDeliveryPacks(o, partner) ==
    /\ IF o \notin DOMAIN orders
       THEN resp' = Resp("assign-delivery", o, 404) /\ UNCHANGED orders
       ELSE /\ CanTrail(o)
            /\ orders' = [orders EXCEPT ![o].delivery = Summary(partner),
                                        ![o].status = "packed",
                                        ![o].statusHistory = Append(@, "packed")]
            /\ resp' = Resp("assign-delivery", o, 200)
    /\ UNCHANGED <<products, carts, gateway, req, deliveries, dreq, inventory, ireq, reviews, ratings, prices, clock>>

AssignDelivery(o, partner) ==
    /\ IF o \notin DOMAIN orders
       THEN resp' = Resp("assign-delivery", o, 404) /\ UNCHANGED orders
       ELSE /\ CanTrail(o)
            /\ orders' = [orders EXCEPT ![o] =
                   preSave([orders[o] EXCEPT !.delivery = Summary(partner),
                                             !.statusHistory = Append(@, orders[o].status)],
                           Len(orders), clock)]
            /\ resp' = Resp("assign-delivery", o, 200)
    /\ UNCHANGED <<products, carts, gateway, req, deliveries, dreq, inventory, ireq, reviews, ratings, prices, clock>>

-----------------------------------------------------------------------------
(* POST /api/delivery/assign *)

DeliveryIds == 1..MaxAssign

\* Delivery.findOne({order}): the first delivery of the order, 0 if none
FindDelivery(o) ==
    LET ds == {d \in DOMAIN deliveries : deliveries[d].order = o}
    IN  IF ds = {} THEN 0 ELSE CHOOSE d \in ds : \A e \in ds : d <= e

NewDelivery(o, partner) ==
    [order |-> o,
     partner |-> partner,
     status |-> "assigned",
     statusHistory |-> <<"assigned">>,
     actualDeliveryDate |-> FALSE,
     customerSignature |-> NoProof,
     proofOfDelivery |-> NoProof]

\* Order.findById, then Delivery.findOne({order}).  A request takes the first
\* free slot.
AssignFind(a, o, partner) ==
    /\ dreq[a].pc = "idle"
    /\ \A b \in AReqs : dreq[b].pc = "idle" => a <= b
    /\ IF o \notin DOMAIN orders
       THEN /\ resp' = Resp("assign", o, 404)
            /\ UNCHANGED dreq
       ELSE /\ dreq' = [dreq EXCEPT ![a] = [pc |-> "save", order |-> o,
                                            partner |-> partner,
                                            found |-> FindDelivery(o)]]
            /\ UNCHANGED resp
    /\ UNCHANGED <<products, carts, orders, gateway, req, deliveries, inventory, ireq, reviews, ratings, prices, clock>>

\* delivery.save(): the found delivery with its partner replaced, or a new
\* one; partner is required, and a validation error is answered 500
AssignSave(a) ==
    /\ dreq[a].pc = "save"
    /\ IF dreq[a].partner = NoPartner
       THEN /\ dreq' = [dreq EXCEPT ![a] = AIdle]
            /\ resp' = Resp("assign", dreq[a].order, 500)
            /\ UNCHANGED deliveries
       ELSE /\ deliveries' =
                 IF dreq[a].found # 0
                 THEN [deliveries EXCEPT ![dreq[a].found].partner = dreq[a].partner]
                 ELSE Append(deliveries, NewDelivery(dreq[a].order, dreq[a].partner))
            /\ dreq' = [dreq EXCEPT ![a].pc = "order"]
            /\ UNCHANGED resp
    /\ UNCHANGED <<products, carts, orders, gateway, req, inventory, ireq, reviews, ratings, prices, clock>>

\* order.delivery = {partner, estimatedDate}; order.save(); 200
AssignOrder(a) ==
    /\ dreq[a].pc = "order"
    /\ orders' = [orders EXCEPT ![dreq[a].order].delivery = Summary(dreq[a].partner)]
    /\ dreq' = [dreq EXCEPT ![a] = AIdle]
    /\ resp' = Resp("assign", dreq[a].order, 200)
    /\ UNCHANGED <<products, carts, gateway, req, deliveries, inventory, ireq, reviews, ratings, prices, clock>>

Assign ==
    \/ \E a \in AReqs, o \in OrderIds, partner \in Partners \cup {NoPartner} :
          AssignFind(a, o, partner)
    \/ \E a \in AReqs : AssignSave(a)
    \/ \E a \in AReqs : AssignOrder(a)

-----------------------------------------------------------------------------
(* PUT /api/delivery/:id/status *)

\* the statusHistory of delivery d has room
CanTrailD(d) == Len(deliveries[d].statusHistory) < MaxTrail

\* Forbidden letting every partner through
ForbiddenNobody(d, actor) == FALSE

\* the access check: a delivery partner on a delivery of another partner
Forbidden(d, actor) == actor \in Partners /\ deliveries[d].partner # actor

\* Projected taking 'picked' for a shipment
ProjectedPickedShipped(s, old) ==
    IF s \in {"picked", "in_transit", "out_for_delivery"} THEN "shipped"
    ELSE IF s = "delivered" THEN "delivered"
    ELSE old

\* the order status a delivery status projects to
Projected(s, old) ==
    IF s = "picked" THEN "packed"
    ELSE IF s \in {"in_transit", "out_for_delivery"} THEN "shipped"
    ELSE IF s = "delivered" THEN "delivered"
    ELSE old

\* actor: a delivery partner or the admin
SetStatus(d, actor, s) ==
    /\ IF s \notin DeliveryStatuses
       THEN resp' = Resp("set-status", d, 400) /\ UNCHANGED <<orders, deliveries>>
       ELSE IF d \notin DOMAIN deliveries
       THEN resp' = Resp("set-status", d, 404) /\ UNCHANGED <<orders, deliveries>>
       ELSE IF Forbidden(d, actor)
       THEN resp' = Resp("set-status", d, 403) /\ UNCHANGED <<orders, deliveries>>
       ELSE LET o == deliveries[d].order
                st == Projected(s, orders[o].status)
            IN  /\ CanTrailD(d) /\ CanTrail(o)
                /\ deliveries' =
                      [deliveries EXCEPT
                          ![d].status = s,
                          ![d].statusHistory = Append(@, s),
                          ![d].actualDeliveryDate = IF s = "delivered" THEN TRUE ELSE @]
                /\ orders' = [orders EXCEPT ![o].status = st,
                                            ![o].statusHistory = Append(@, st)]
                /\ resp' = Resp("set-status", d, 200)
    /\ UNCHANGED <<products, carts, gateway, req, dreq, inventory, ireq, reviews, ratings, prices, clock>>

-----------------------------------------------------------------------------
(* POST /api/delivery/:id/confirm *)

\* ConfirmedOrder stopping at 'delivered'
ConfirmedOrderDelivered(ord) ==
    [ord EXCEPT !.status = "delivered",
                !.delivery.actualDate = TRUE,
                !.statusHistory = Append(@, "delivered")]

\* the order the handler saves: completed, actualDate stamped, history pushed
ConfirmedOrder(ord) ==
    [ord EXCEPT !.status = "completed",
                !.delivery.actualDate = TRUE,
                !.statusHistory = Append(@, "completed")]

Confirm(d, actor, signature, proofImage) ==
    /\ IF d \notin DOMAIN deliveries
       THEN resp' = Resp("confirm", d, 404) /\ UNCHANGED <<orders, deliveries>>
       ELSE IF Forbidden(d, actor)
       THEN resp' = Resp("confirm", d, 403) /\ UNCHANGED <<orders, deliveries>>
       ELSE LET o == deliveries[d].order
            IN  /\ CanTrailD(d) /\ CanTrail(o)
                /\ deliveries' =
                      [deliveries EXCEPT
                          ![d].status = "delivered",
                          ![d].actualDeliveryDate = TRUE,
                          ![d].customerSignature = signature,
                          ![d].proofOfDelivery = proofImage,
                          ![d].statusHistory = Append(@, "delivered")]
                /\ orders' = [orders EXCEPT ![o] = ConfirmedOrder(orders[o])]
                /\ resp' = Resp("confirm", d, 200)
    /\ UNCHANGED <<products, carts, gateway, req, dreq, inventory, ireq, reviews, ratings, prices, clock>>

-----------------------------------------------------------------------------
(* Inventory routes: add-stock, PUT /:productId, remove-stock *)

PId(p) == IF p = "P1" THEN 1 ELSE 2

RECURSIVE SumLen(_)
SumLen(S) ==
    IF S = {} THEN 0
    ELSE LET p == CHOOSE x \in S : TRUE
         IN  Len(inventory[p].stockHistory) + SumLen(S \ {p})

\* entries stored and entries about to be stored
InvOps == SumLen(Products) + Cardinality({r \in IReqs : ireq[r].entry # NoEntry})

\* the slot a new inventory request takes
IFree(r) == ireq[r].pc = "idle" /\ \A x \in IReqs : x < r => ireq[x].pc # "idle"

\* inventory.save() is refused: a new document whose product already has a
\* record (unique index), or totalStock below min: 0
SaveFails(doc, inv) == (doc.isNew /\ inv.saved) \/ doc.totalStock < 0

\* inventory.save(): the modified path totalStock is set, the pushed entry is
\* appended to the stored array
Saved(doc, inv) ==
    IF doc.entry = NoEntry THEN inv
    ELSE [saved |-> TRUE, totalStock |-> doc.totalStock,
          reservedStock |-> inv.reservedStock,
          stockHistory |-> Append(inv.stockHistory, doc.entry)]

\* POST /api/inventory/add-stock, to Inventory.findOne
AddStockFind(r, p, q) ==
    /\ IFree(r)
    /\ IF q < 1
       THEN resp' = Resp("add-stock", PId(p), 400) /\ UNCHANGED ireq
       ELSE LET previousStock == inventory[p].totalStock
            IN  /\ previousStock + q <= MaxTotal
                /\ InvOps < MaxInvOps
                /\ ireq' = [ireq EXCEPT ![r] =
                       [pc |-> "save", op |-> "add-stock", product |-> p,
                        isNew |-> ~inventory[p].saved,
                        totalStock |-> previousStock + q,
                        entry |-> Entry("in", q, previousStock, previousStock + q)]]
                /\ UNCHANGED resp
    /\ UNCHANGED <<products, carts, orders, gateway, req, deliveries, dreq, inventory, reviews, ratings, prices, clock>>

\* add-stock: await inventory.save()
AddStockSave(r) ==
    LET doc == ireq[r]
        p == doc.product
    IN  /\ doc.pc = "save" /\ doc.op = "add-stock"
        /\ IF SaveFails(doc, inventory[p])
           THEN /\ resp = NoResp
                /\ resp' = Resp("add-stock", PId(p), 500)
                /\ ireq' = [ireq EXCEPT ![r] = IIdle]
                /\ UNCHANGED inventory
           ELSE /\ inventory' = [inventory EXCEPT ![p] = Saved(doc, @)]
                /\ ireq' = [ireq EXCEPT ![r].pc = "product"]
                /\ UNCHANGED resp
        /\ UNCHANGED <<products, carts, orders, gateway, req, deliveries, dreq, reviews, ratings, prices, clock>>

\* add-stock: Product.findByIdAndUpdate(productId, {stock: inventory.totalStock})
AddStockProduct(r) ==
    LET doc == ireq[r]
        p == doc.product
    IN  /\ doc.pc = "product" /\ doc.op = "add-stock"
        /\ resp = NoResp
        /\ products' = [products EXCEPT ![p].stock = doc.totalStock]
        /\ resp' = Resp("add-stock", PId(p), 200)
        /\ ireq' = [ireq EXCEPT ![r] = IIdle]
        /\ UNCHANGED <<carts, orders, gateway, req, deliveries, dreq, inventory, reviews, ratings, prices, clock>>


\* the entry with the new total in place of the signed change
AdjustmentAbsolute(previousStock, t) == Entry("adjustment", t, previousStock, t)
\* the entry PUT pushes: the signed change from the total it read
Adjustment(previousStock, t) == Entry("adjustment", t - previousStock, previousStock, t)

\* PUT /api/inventory/:productId, to Inventory.findOne; hasTotal = the body
\* carries totalStock
AdjustFind(r, p, hasTotal, t) ==
    /\ IFree(r)
    /\ IF ~inventory[p].saved
       THEN resp' = Resp("adjust", PId(p), 404) /\ UNCHANGED ireq
       ELSE LET previousStock == inventory[p].totalStock
            IN  IF hasTotal
                THEN /\ InvOps < MaxInvOps
                     /\ ireq' = [ireq EXCEPT ![r] =
                            [pc |-> "product", op |-> "adjust", product |-> p,
                             isNew |-> FALSE, totalStock |-> t,
                             entry |-> Adjustment(previousStock, t)]]
                     /\ UNCHANGED resp
                ELSE /\ ireq' = [ireq EXCEPT ![r] =
                            [pc |-> "save", op |-> "adjust", product |-> p,
                             isNew |-> FALSE, totalStock |-> previousStock,
                             entry |-> NoEntry]]
                     /\ UNCHANGED resp
    /\ UNCHANGED <<products, carts, orders, gateway, req, deliveries, dreq, inventory, reviews, ratings, prices, clock>>

\* PUT: Product.findByIdAndUpdate(productId, {stock: totalStock}), which runs
\* no validator, before the inventory is saved
AdjustProduct(r) ==
    LET doc == ireq[r]
        p == doc.product
    IN  /\ doc.pc = "product" /\ doc.op = "adjust"
        /\ products' = [products EXCEPT ![p].stock = doc.totalStock]
        /\ ireq' = [ireq EXCEPT ![r].pc = "save"]
        /\ UNCHANGED <<carts, orders, gateway, req, resp, deliveries, dreq, inventory, reviews, ratings, prices, clock>>

\* PUT: await inventory.save()
AdjustSave(r) ==
    LET doc == ireq[r]
        p == doc.product
    IN  /\ doc.pc = "save" /\ doc.op = "adjust"
        /\ resp = NoResp
        /\ IF SaveFails(doc, inventory[p])
           THEN /\ resp' = Resp("adjust", PId(p), 500)
                /\ UNCHANGED inventory
           ELSE /\ inventory' = [inventory EXCEPT ![p] = Saved(doc, @)]
                /\ resp' = Resp("adjust", PId(p), 200)
        /\ ireq' = [ireq EXCEPT ![r] = IIdle]
        /\ UNCHANGED <<products, carts, orders, gateway, req, deliveries, dreq, reviews, ratings, prices, clock>>


\* the totalStock a PUT body may carry: below min, nothing left, a little, a lot
Totals == {-1, 0, StockP2, MaxTotal}

\* the type a remove-stock body may name ('out' when it names none)
RemoveTypes == {"out", "returned"}

\* POST /api/inventory/:productId/remove-stock, to Inventory.findOne
RemoveStockFind(r, p, q, type) ==
    /\ IFree(r)
    /\ IF q < 1
       THEN resp' = Resp("remove-stock", PId(p), 400) /\ UNCHANGED ireq
       ELSE IF ~inventory[p].saved
       THEN resp' = Resp("remove-stock", PId(p), 404) /\ UNCHANGED ireq
       ELSE IF q > inventory[p].totalStock - inventory[p].reservedStock
       THEN resp' = Resp("remove-stock", PId(p), 400) /\ UNCHANGED ireq
       ELSE LET previousStock == inventory[p].totalStock
            IN  /\ InvOps < MaxInvOps
                /\ ireq' = [ireq EXCEPT ![r] =
                       [pc |-> "save", op |-> "remove-stock", product |-> p,
                        isNew |-> FALSE, totalStock |-> previousStock - q,
                        entry |-> Entry(type, -q, previousStock, previousStock - q)]]
                /\ UNCHANGED resp
    /\ UNCHANGED <<products, carts, orders, gateway, req, deliveries, dreq, inventory, reviews, ratings, prices, clock>>

\* remove-stock: await inventory.save()
RemoveStockSave(r) ==
    LET doc == ireq[r]
        p == doc.product
    IN  /\ doc.pc = "save" /\ doc.op = "remove-stock"
        /\ IF SaveFails(doc, inventory[p])
           THEN /\ resp = NoResp
                /\ resp' = Resp("remove-stock", PId(p), 500)
                /\ ireq' = [ireq EXCEPT ![r] = IIdle]
                /\ UNCHANGED inventory
           ELSE /\ inventory' = [inventory EXCEPT ![p] = Saved(doc, @)]
                /\ ireq' = [ireq EXCEPT ![r].pc = "product"]
                /\ UNCHANGED resp
        /\ UNCHANGED <<products, carts, orders, gateway, req, deliveries, dreq, reviews, ratings, prices, clock>>

\* remove-stock: Product.findByIdAndUpdate(productId, {stock: inventory.totalStock})
RemoveStockProduct(r) ==
    LET doc == ireq[r]
        p == doc.product
    IN  /\ doc.pc = "product" /\ doc.op = "remove-stock"
        /\ resp = NoResp
        /\ products' = [products EXCEPT ![p].stock = doc.totalStock]
        /\ resp' = Resp("remove-stock", PId(p), 200)
        /\ ireq' = [ireq EXCEPT ![r] = IIdle]
        /\ UNCHANGED <<carts, orders, gateway, req, deliveries, dreq, inventory, reviews, ratings, prices, clock>>


-----------------------------------------------------------------------------
(* POST /api/cart/add, and the catalog edit that changes what it stamps *)

\* the discountPrice a catalog edit may set: none, or a sale price
Discounts == {0, 40}

\* PUT /api/products/:id with {discountPrice, isAvailable}
UpdateProduct(p, discountPrice, isAvailable) ==
    /\ prices' = [prices EXCEPT ![p].discountPrice = discountPrice,
                                ![p].isAvailable = isAvailable]
    /\ resp' = Resp("update-product", PId(p), 200)
    /\ UNCHANGED <<products, carts, orders, gateway, req, deliveries, dreq, inventory, ireq, reviews, ratings, clock>>

\* the price a line is stamped with
StampPrice(prod) == IF prod.discountPrice > 0 THEN prod.discountPrice ELSE prod.price

\* cart.items.findIndex(item => item.product.toString() === productId), 0 for -1
RECURSIVE IndexFrom(_, _, _)
IndexFrom(items, p, i) ==
    IF i > Len(items) THEN 0
    ELSE IF items[i].product = p THEN i
    ELSE IndexFrom(items, p, i + 1)
existingItemIndex(items, p) == IndexFrom(items, p, 1)

\* every add pushes a new line
AddedAsNewLine(items, p, q, price) ==
    Append(items, [product |-> p, quantity |-> q, price |-> price])

\* the items after the add: the existing line grows and is re-stamped, or a new
\* line is pushed
Added(items, p, q, price) ==
    LET i == existingItemIndex(items, p)
    IN  IF i > 0
        THEN [items EXCEPT ![i].quantity = @ + q, ![i].price = price]
        ELSE Append(items, [product |-> p, quantity |-> q, price |-> price])

\* POST /api/cart/add by user u
AddItem(u, p, q) ==
    LET available == availableStock(products[p])
        items == carts[u].items
        i == existingItemIndex(items, p)
    IN  /\ IF ~prices[p].isAvailable
           THEN resp' = Resp("cart-add", PId(p), 400) /\ UNCHANGED carts
           ELSE IF q > available
           THEN resp' = Resp("cart-add", PId(p), 400) /\ UNCHANGED carts
           ELSE IF i > 0 /\ items[i].quantity + q > available
           THEN resp' = Resp("cart-add", PId(p), 400) /\ UNCHANGED carts
           ELSE /\ carts' = [carts EXCEPT ![u] =
                       [exists |-> TRUE, items |-> Added(items, p, q, StampPrice(prices[p]))]]
                /\ resp' = Resp("cart-add", PId(p), 200)
        /\ UNCHANGED <<products, orders, gateway, req, deliveries, dreq, inventory, ireq, reviews, ratings, prices, clock>>

-----------------------------------------------------------------------------
(* Review routes: create (product, delivery), update, delete, moderate *)

\* a Review document; a product review names no partner, a delivery review
\* no product.  title and comment are stored as given.
Review(type, product, partner, order, user, rating, verified) ==
    [type |-> type, product |-> product, deliveryPartner |-> partner,
     order |-> order, user |-> user, rating |-> rating,
     isVerifiedPurchase |-> verified, isApproved |-> TRUE]
NoProduct == "undefined"
\* the id of a request that matches no review
NoReview == Review("none", NoProduct, NoPartner, 0, "none", 0, FALSE)

\* rating of a body: 0 stands for none given; reviewSchema allows 1 to 5
RatingInputs == {0, 4, 5, 6}
ValidRating(rating) == rating >= 1 /\ rating <= 5

TargetOf(rv) == IF rv.type = "product" THEN rv.product ELSE rv.deliveryPartner

\* Review.find({product | deliveryPartner: t, isApproved: true, type})
ApprovedOf(all, t) == {rv \in all : rv.isApproved /\ TargetOf(rv) = t}

RECURSIVE SumRatings(_)
SumRatings(S) ==
    IF S = {} THEN 0
    ELSE LET rv == CHOOSE x \in S : TRUE
         IN  rv.rating + SumRatings(S \ {rv})

\* Math.round(avgRating * 10) / 10 in tenths, for a non-empty S (the mean of
\* fewer than 20 ratings times 10 is a tie only at an exact binary fraction)
Tenths(S) == (20 * SumRatings(S) + Cardinality(S)) \div (2 * Cardinality(S))

\* reviews.length > 0 ? mean : 0, rounded, with the count
Recomputed(all, t) ==
    LET S == ApprovedOf(all, t)
    IN  Rating(IF S # {} THEN Tenths(S) ELSE 0, Cardinality(S))

\* Order.findOne({user, 'items.product', status in delivered | completed}),
\* 0 when there is none
hasOrdered(u, p) ==
    LET S == {o \in DOMAIN orders :
                 /\ orders[o].user = u
                 /\ \E i \in DOMAIN orders[o].items : orders[o].items[i].product = p
                 /\ orders[o].status \in {"delivered", "completed"}}
    IN  IF S = {} THEN 0 ELSE CHOOSE o \in S : \A x \in S : o <= x

\* the duplicate check, looking at reviews of any type
existingReviewAnyType(u, p) ==
    \E rv \in reviews : rv.type = "delivery" /\ rv.product = p /\ rv.user = u
\* Review.findOne({product, user, type: 'product'})
existingReview(u, p) ==
    \E rv \in reviews : rv.type = "product" /\ rv.product = p /\ rv.user = u

\* POST /api/reviews, type 'product'
CreateProductReview(u, p, rating) ==
    /\ IF existingReview(u, p)
       THEN resp' = Resp("review-product", PId(p), 400) /\ UNCHANGED <<reviews, ratings>>
       ELSE IF ~ValidRating(rating)
       THEN resp' = Resp("review-product", PId(p), 500) /\ UNCHANGED <<reviews, ratings>>
       ELSE LET review == Review("product", p, NoPartner, hasOrdered(u, p), u, rating,
                                 hasOrdered(u, p) # 0)
                all == reviews \cup {review}
                S == ApprovedOf(all, p)
            IN  /\ Cardinality(reviews) < MaxReviews
                /\ reviews' = all
                /\ ratings' = [ratings EXCEPT ![p] = Rating(Tenths(S), Cardinality(S))]
                /\ resp' = Resp("review-product", PId(p), 201)
    /\ UNCHANGED <<products, carts, orders, gateway, req, deliveries, dreq, inventory, ireq, prices, clock>>

\* the delivery branch without the ownership check
DeliveryReviewRefusedOpen(u, o) ==
    IF o = 0 THEN 400
    ELSE IF o \notin DOMAIN orders THEN 404
    ELSE IF orders[o].status \notin {"delivered", "completed"} THEN 400
    ELSE IF orders[o].delivery.partner = NoPartner THEN 400
    ELSE IF \E rv \in reviews : rv.type = "delivery" /\ rv.order = o THEN 400
    ELSE 0

\* the status the delivery branch refuses the request with, 0 if it does not
DeliveryReviewRefused(u, o) ==
    IF o = 0 THEN 400
    ELSE IF o \notin DOMAIN orders THEN 404
    ELSE IF orders[o].user # u THEN 403
    ELSE IF orders[o].status \notin {"delivered", "completed"} THEN 400
    ELSE IF orders[o].delivery.partner = NoPartner THEN 400
    ELSE IF \E rv \in reviews : rv.type = "delivery" /\ rv.order = o THEN 400
    ELSE 0

\* POST /api/reviews, type 'delivery'; o = 0: the body names no order
CreateDeliveryReview(u, o, rating) ==
    /\ IF DeliveryReviewRefused(u, o) # 0
       THEN resp' = Resp("review-delivery", o, DeliveryReviewRefused(u, o))
            /\ UNCHANGED <<reviews, ratings>>
       ELSE IF ~ValidRating(rating)
       THEN resp' = Resp("review-delivery", o, 500) /\ UNCHANGED <<reviews, ratings>>
       ELSE LET partner == orders[o].delivery.partner
                review == Review("delivery", NoProduct, partner, o, u, rating, TRUE)
                all == reviews \cup {review}
            IN  /\ Cardinality(reviews) < MaxReviews
                /\ reviews' = all
                /\ ratings' = [ratings EXCEPT ![partner] = Recomputed(all, partner)]
                /\ resp' = Resp("review-delivery", o, 201)
    /\ UNCHANGED <<products, carts, orders, gateway, req, deliveries, dreq, inventory, ireq, prices, clock>>

\* PUT /api/reviews/:id by user u; the mean of no review is NaN, which the
\* update of the target refuses to cast, after the review itself was saved
UpdateReview(rv, u, rating) ==
    /\ IF rv = NoReview
       THEN resp' = Resp("review-update", 0, 404) /\ UNCHANGED <<reviews, ratings>>
       ELSE IF rv.user # u
       THEN resp' = Resp("review-update", 0, 403) /\ UNCHANGED <<reviews, ratings>>
       ELSE LET new == [rv EXCEPT !.rating = IF rating # 0 THEN rating ELSE @]
                all == (reviews \ {rv}) \cup {new}
                S == ApprovedOf(all, TargetOf(rv))
            IN  IF ~ValidRating(new.rating)
                THEN resp' = Resp("review-update", 0, 500) /\ UNCHANGED <<reviews, ratings>>
                ELSE /\ reviews' = all
                     /\ IF S = {}
                        THEN resp' = Resp("review-update", 0, 500) /\ UNCHANGED ratings
                        ELSE /\ ratings' = [ratings EXCEPT ![TargetOf(rv)].average = Tenths(S)]
                             /\ resp' = Resp("review-update", 0, 200)
    /\ UNCHANGED <<products, carts, orders, gateway, req, deliveries, dreq, inventory, ireq, prices, clock>>

\* DELETE /api/reviews/:id by its owner or an admin
DeleteReview(rv, actor) ==
    /\ IF rv = NoReview
       THEN resp' = Resp("review-delete", 0, 404) /\ UNCHANGED <<reviews, ratings>>
       ELSE IF rv.user # actor /\ actor # Admin
       THEN resp' = Resp("review-delete", 0, 403) /\ UNCHANGED <<reviews, ratings>>
       ELSE /\ reviews' = reviews \ {rv}
            /\ ratings' = [ratings EXCEPT ![TargetOf(rv)] =
                              Recomputed(reviews \ {rv}, TargetOf(rv))]
            /\ resp' = Resp("review-delete", 0, 200)
    /\ UNCHANGED <<products, carts, orders, gateway, req, deliveries, dreq, inventory, ireq, prices, clock>>

\* PUT /api/reviews/:id/moderate by an admin
Moderate(rv, isApproved) ==
    /\ IF rv = NoReview
       THEN resp' = Resp("review-moderate", 0, 404) /\ UNCHANGED <<reviews, ratings>>
       ELSE LET all == (reviews \ {rv}) \cup {[rv EXCEPT !.isApproved = isApproved]}
            IN  /\ reviews' = all
                /\ ratings' = [ratings EXCEPT ![TargetOf(rv)] = Recomputed(all, TargetOf(rv))]
                /\ resp' = Resp("review-moderate", 0, 200)
    /\ UNCHANGED <<products, carts, orders, gateway, req, deliveries, dreq, inventory, ireq, prices, clock>>

-----------------------------------------------------------------------------
(* POST /api/orders/:id/cancel, as the round trips it makes *)

\* Order.findById and the checks on the document read
CancelRead(r, o, actor) ==
    /\ req[r].pc = "idle"
    /\ \A q \in Reqs : req[q].pc = "idle" => r <= q
    /\ IF o \notin DOMAIN orders
       THEN resp' = Resp("cancel", o, 404) /\ UNCHANGED req
       ELSE IF actor # Admin /\ orders[o].user # actor
       THEN resp' = Resp("cancel", o, 403) /\ UNCHANGED req
       ELSE IF orders[o].status \in nonCancellable
       THEN resp' = Resp("cancel", o, 400) /\ UNCHANGED req
       ELSE /\ req' = [req EXCEPT ![r] = [Idle EXCEPT !.pc = "release", !.user = actor,
                                                      !.items = orders[o].items,
                                                      !.i = 1, !.order = o]]
            /\ UNCHANGED resp
    /\ UNCHANGED <<products, carts, orders, gateway, deliveries, dreq, inventory, ireq, reviews, ratings, prices, clock>>

\* Product.findByIdAndUpdate($inc reservedStock) for the next line
CancelRelease(r) ==
    /\ req[r].pc = "release"
    /\ LET item == req[r].items[req[r].i]
       IN  products' = [products EXCEPT ![item.product].reservedStock = @ - item.quantity]
    /\ req' = [req EXCEPT ![r].i = @ + 1,
                          ![r].pc = IF req[r].i = Len(req[r].items) THEN "save" ELSE "release"]
    /\ UNCHANGED <<carts, orders, gateway, resp, deliveries, dreq, inventory, ireq, reviews, ratings, prices, clock>>

\* order.save(): sets status and cancellationReason and pushes the entry
CancelSave(r, reason) ==
    /\ req[r].pc = "save"
    /\ LET o == req[r].order
       IN  /\ CanPush(o)
           /\ orders' = [orders EXCEPT ![o] =
                  preSave([orders[o] EXCEPT !.status = "cancelled",
                                            !.cancellationReason = reason,
                                            !.statusHistory = Append(@, "cancelled")],
                          Len(orders), clock)]
           /\ resp' = Resp("cancel", o, 200)
    /\ req' = [req EXCEPT ![r] = Idle]
    /\ UNCHANGED <<products, carts, gateway, deliveries, dreq, inventory, ireq, reviews, ratings, prices, clock>>

-----------------------------------------------------------------------------
(* Specifications *)

\* the client receives the answer
Deliver ==
    /\ resp # NoResp
    /\ resp' = NoResp
    /\ UNCHANGED <<products, carts, orders, gateway, req, deliveries, dreq, inventory, ireq, reviews, ratings, prices, clock>>

\* no request is between two of its steps and no answer is on its way
Quiet == InFlight = {} /\ resp = NoResp

\* requests run one after the other: one starts when the last one was answered
Next ==
    \/ \E r \in Reqs, u \in Users, hasAddr \in BOOLEAN :
          Quiet /\ CheckoutRead(r, u, hasAddr)
    \/ \E r \in Reqs : CheckoutValidate(r)
    \/ \E r \in Reqs : CheckoutReserve(r)
    \/ \E r \in Reqs, addrOk \in BOOLEAN : CheckoutCreate(r, addrOk)
    \/ \E r \in Reqs : CheckoutInsert(r)
    \/ \E r \in Reqs : CheckoutClear(r)
    \/ \E o \in OrderIds, u \in Users, gwOk \in BOOLEAN :
          Quiet /\ CreatePaymentOrder(o, u, gwOk)
    \/ \E o \in OrderIds, g \in OrderIds, sigOk \in BOOLEAN, gwOk \in BOOLEAN :
          Quiet /\ Verify(o, g, sigOk, gwOk)
    \/ \E g \in OrderIds, sigOk \in BOOLEAN : Quiet /\ WebhookCaptured(g, sigOk)
    \/ \E g \in OrderIds, sigOk \in BOOLEAN : Quiet /\ WebhookFailed(g, sigOk)
    \/ \E g \in OrderIds, sigOk \in BOOLEAN : Quiet /\ WebhookRefund(g, sigOk)
    \/ \E o \in OrderIds, gwOk \in BOOLEAN : Quiet /\ Refund(o, gwOk)
    \/ \E o \in OrderIds, s \in Statuses \cup {"bogus"} : Quiet /\ UpdateStatus(o, s)
    \/ \E o \in OrderIds, a \in Users \cup {Admin}, rsn \in Reasons : Quiet /\ Cancel(o, a, rsn)
    \/ Deliver

Spec == Init /\ [][Next]_vars

\* concurrent checkouts: their steps interleave in any order; an answer leaves
\* the server before the next step runs
NextConc ==
    \/ resp = NoResp /\ Checkout
    \/ Deliver

SpecConc == InitConc /\ [][NextConc]_vars

\* an order placed by u1 awaits delivery: the state a checkout of the cart
\* [(P1, MaxQty)] leaves
InitDelivery ==
    /\ products = [p \in Products |->
                      [stock |-> InitStock(p),
                       reservedStock |-> IF p = "P1" THEN MaxQty ELSE 0]]
    /\ carts = [u \in Users |-> [exists |-> u = "u1", items |-> <<>>]]
    /\ orders = <<preSave(NewOrder("u1", <<Line("P1", MaxQty)>>,
                                    CartTotal(<<Line("P1", MaxQty)>>)), 0, 0)>>
    /\ gateway = {}
    /\ req = [r \in Reqs |-> Idle]
    /\ resp = NoResp
    /\ deliveries = <<>>
    /\ dreq = [a \in AReqs |-> AIdle]
    /\ InitBackOffice

QuietD == AInFlight = {} /\ resp = NoResp

\* a delivery is assigned and carried out, one request after the other
NextDelivery ==
    \/ \E a \in AReqs, o \in OrderIds, partner \in Partners \cup {NoPartner} :
          QuietD /\ AssignFind(a, o, partner)
    \/ \E a \in AReqs : AssignSave(a)
    \/ \E a \in AReqs : AssignOrder(a)
    \/ \E d \in DeliveryIds, actor \in Partners \cup {Admin},
          s \in DeliveryStatuses \cup {"bogus"} : QuietD /\ SetStatus(d, actor, s)
    \/ \E d \in DeliveryIds, actor \in Partners \cup {Admin},
          signature \in Signatures, proofImage \in ProofImages :
          QuietD /\ Confirm(d, actor, signature, proofImage)
    \/ Deliver

SpecDelivery == InitDelivery /\ [][NextDelivery]_vars

\* assignments through both endpoints on an order the admin moves through its
\* statuses, one request after the other
NextAssignment ==
    \/ \E a \in AReqs, o \in OrderIds, partner \in Partners \cup {NoPartner} :
          QuietD /\ AssignFind(a, o, partner)
    \/ \E a \in AReqs : AssignSave(a)
    \/ \E a \in AReqs : AssignOrder(a)
    \/ \E o \in OrderIds, partner \in Partners \cup {NoPartner} :
          QuietD /\ AssignDelivery(o, partner)
    \/ \E o \in OrderIds, s \in Statuses \cup {"bogus"} : QuietD /\ UpdateStatus(o, s)
    \/ \E o \in OrderIds, a \in Users \cup {Admin}, rsn \in Reasons :
          QuietD /\ Cancel(o, a, rsn)
    \/ Deliver

SpecAssignment == InitDelivery /\ [][NextAssignment]_vars

\* concurrent POST /api/delivery/assign requests: their steps interleave
NextAssign ==
    \/ resp = NoResp /\ Assign
    \/ Deliver

SpecAssign == InitDelivery /\ [][NextAssign]_vars

\* the stock room before any inventory request: nobody shops; P2 either has its
\* Inventory record or was created by POST /api/products, which writes none
InitInventory ==
    /\ products = [p \in Products |-> [stock |-> InitStock(p), reservedStock |-> 0]]
    /\ carts = [u \in Users |-> [exists |-> FALSE, items |-> <<>>]]
    /\ orders = <<>>
    /\ gateway = {}
    /\ req = [r \in Reqs |-> Idle]
    /\ resp = NoResp
    /\ deliveries = <<>>
    /\ dreq = [a \in AReqs |-> AIdle]
    /\ inventory \in {[p \in Products |-> Inventory(InitStock(p))],
                      [p \in Products |->
                          IF p = "P1" THEN Inventory(InitStock(p)) ELSE NoInventory]}
    /\ ireq = [r \in IReqs |-> IIdle]
    /\ reviews = {}
    /\ ratings = [t \in Targets |-> NoRating]
    /\ prices = Catalog
    /\ clock = 0

QuietI == IInFlight = {} /\ resp = NoResp

\* inventory requests, one after the other
NextInventory ==
    \/ \E r \in IReqs, p \in Products, q \in 0..MaxQty :
          QuietI /\ AddStockFind(r, p, q)
    \/ \E r \in IReqs : AddStockSave(r)
    \/ \E r \in IReqs : AddStockProduct(r)
    \/ \E r \in IReqs, p \in Products, hasTotal \in BOOLEAN, t \in Totals :
          QuietI /\ (hasTotal \/ t = 0) /\ AdjustFind(r, p, hasTotal, t)
    \/ \E r \in IReqs : AdjustProduct(r)
    \/ \E r \in IReqs : AdjustSave(r)
    \/ \E r \in IReqs, p \in Products, q \in 0..MaxQty, type \in RemoveTypes :
          QuietI /\ RemoveStockFind(r, p, q, type)
    \/ \E r \in IReqs : RemoveStockSave(r)
    \/ \E r \in IReqs : RemoveStockProduct(r)
    \/ Deliver

SpecInventory == InitInventory /\ [][NextInventory]_vars

\* every product has its Inventory record
InitAddStock == InitInventory /\ \A p \in Products : inventory[p].saved

\* add-stock requests overlap; an answer is received as soon as it is sent
NextAddStock ==
    \/ \E r \in IReqs, p \in Products, q \in 0..MaxQty :
          resp = NoResp /\ AddStockFind(r, p, q)
    \/ \E r \in IReqs : AddStockSave(r)
    \/ \E r \in IReqs : AddStockProduct(r)
    \/ Deliver

SpecAddStock == InitAddStock /\ [][NextAddStock]_vars


\* before any shopping: nobody holds a cart and stock is free, or u1 has
\* placed an order that reserves part of P1
InitCart ==
    \/ InitConc /\ \A u \in Users : ~carts[u].exists
    \/ InitDelivery

\* one shopper fills a cart while the catalog is edited, one request after
\* the other
NextCart ==
    \/ \E u \in Users, p \in Products, q \in 1..MaxQty :
          /\ resp = NoResp
          /\ \A v \in Users \ {u} : carts[v].items = <<>>
          /\ AddItem(u, p, q)
    \/ \E p \in Products, discountPrice \in Discounts, isAvailable \in BOOLEAN :
          resp = NoResp /\ UpdateProduct(p, discountPrice, isAvailable)
    \/ Deliver

SpecCart == InitCart /\ [][NextCart]_vars

\* ratings the seed gives a product, in tenths and as a count
SeedRating == Rating(47, 128)

\* u1's order of P1 is on its way or has arrived, with or without a delivery
\* partner; P1 is either new and unreviewed, or seeded with its ratings and one
\* review by u1
InitReviews ==
    /\ products = [p \in Products |->
                      [stock |-> InitStock(p),
                       reservedStock |-> IF p = "P1" THEN MaxQty ELSE 0]]
    /\ carts = [u \in Users |-> [exists |-> u = "u1", items |-> <<>>]]
    /\ \E status \in {"shipped", "delivered"}, partner \in {NoPartner, "d1"} :
          orders = <<[preSave(NewOrder("u1", <<Line("P1", MaxQty)>>,
                                       CartTotal(<<Line("P1", MaxQty)>>)), 0, 0)
                        EXCEPT !.status = status, !.delivery = Summary(partner)]>>
    /\ gateway = {}
    /\ req = [r \in Reqs |-> Idle]
    /\ resp = NoResp
    /\ deliveries = <<>>
    /\ dreq = [a \in AReqs |-> AIdle]
    /\ inventory = [p \in Products |-> Inventory(InitStock(p))]
    /\ ireq = [r \in IReqs |-> IIdle]
    /\ \/ reviews = {} /\ ratings = [t \in Targets |-> NoRating]
       \/ /\ reviews = {Review("product", "P1", NoPartner, 0, "u1", 4, TRUE)}
          /\ ratings = [t \in Targets |-> IF t = "P1" THEN SeedRating ELSE NoRating]
    /\ prices = Catalog
    /\ clock = 0

\* reviews are written, edited, removed and moderated, one request after the
\* other
NextReviews ==
    \/ \E u \in Users, p \in Products, rating \in RatingInputs :
          resp = NoResp /\ CreateProductReview(u, p, rating)
    \/ \E u \in Users, o \in 0..Len(orders) + 1, rating \in RatingInputs :
          resp = NoResp /\ CreateDeliveryReview(u, o, rating)
    \/ \E rv \in reviews \cup {NoReview}, u \in Users, rating \in RatingInputs :
          resp = NoResp /\ UpdateReview(rv, u, rating)
    \/ \E rv \in reviews \cup {NoReview}, actor \in Users \cup {Admin} :
          resp = NoResp /\ DeleteReview(rv, actor)
    \/ \E rv \in reviews \cup {NoReview}, isApproved \in BOOLEAN :
          resp = NoResp /\ Moderate(rv, isApproved)
    \/ Deliver

SpecReviews == InitReviews /\ [][NextReviews]_vars

\* a millisecond passes
Tick ==
    /\ clock < MaxClock
    /\ clock' = clock + 1
    /\ UNCHANGED <<products, carts, orders, gateway, req, resp, deliveries, dreq, inventory, ireq, reviews, ratings, prices>>

\* both users are about to check out a cart of P1
InitOrderNumber ==
    /\ InitConc
    /\ \A u \in Users : carts[u].items = <<Line("P1", MaxQty)>>

\* an order whose status history is still the one it was created with
Fresh(o) == o \in DOMAIN orders => orders[o].statusHistory = <<"created">>

\* checkouts overlap, and time passes between a checkout's count and its
\* insert; once the checkouts are over the orders are
\* paid, moved on, cancelled and given a delivery partner
NextOrderNumber ==
    \/ resp = NoResp /\ (\A o \in OrderIds : Fresh(o)) /\ Checkout
    \/ (\E r \in Reqs : req[r].pc = "insert") /\ Tick
    \/ \E o \in OrderIds, u \in Users, gwOk \in BOOLEAN :
          Quiet /\ Fresh(o) /\ CreatePaymentOrder(o, u, gwOk)
    \/ \E o \in OrderIds, g \in OrderIds, sigOk \in BOOLEAN, gwOk \in BOOLEAN :
          Quiet /\ Fresh(o) /\ Verify(o, g, sigOk, gwOk)
    \/ \E o \in OrderIds, s \in {"packed", "bogus"} :
          Quiet /\ Fresh(o) /\ UpdateStatus(o, s)
    \/ \E o \in OrderIds, a \in Users \cup {Admin} :
          Quiet /\ Fresh(o) /\ Cancel(o, a, NoReason)
    \/ \E o \in OrderIds, partner \in {"d1", NoPartner} :
          Quiet /\ Fresh(o) /\ AssignDelivery(o, partner)
    \/ Deliver

SpecOrderNumber == InitOrderNumber /\ [][NextOrderNumber]_vars

\* checkout, payment and cancellation only, one request at a time
NextReserved ==
    \/ \E r \in Reqs, u \in Users, hasAddr \in BOOLEAN :
          Quiet /\ CheckoutRead(r, u, hasAddr)
    \/ \E r \in Reqs : CheckoutValidate(r)
    \/ \E r \in Reqs : CheckoutReserve(r)
    \/ \E r \in Reqs, addrOk \in BOOLEAN : CheckoutCreate(r, addrOk)
    \/ \E r \in Reqs : CheckoutInsert(r)
    \/ \E r \in Reqs : CheckoutClear(r)
    \/ \E o \in OrderIds, u \in Users, gwOk \in BOOLEAN :
          Quiet /\ CreatePaymentOrder(o, u, gwOk)
    \/ \E o \in OrderIds, g \in OrderIds, sigOk \in BOOLEAN, gwOk \in BOOLEAN :
          Quiet /\ Verify(o, g, sigOk, gwOk)
    \/ \E o \in OrderIds, a \in Users \cup {Admin}, rsn \in Reasons : Quiet /\ Cancel(o, a, rsn)
    \/ Deliver

SpecReserved == InitConc /\ [][NextReserved]_vars

\* the reservation loop of a checkout, run to its end
RECURSIVE ReserveAll(_, _)
ReserveAll(prods, items) ==
    IF items = <<>> THEN prods
    ELSE ReserveAll([prods EXCEPT ![Head(items).product].reservedStock =
                        @ + Head(items).quantity],
                    Tail(items))

\* one placed order of one or two lines, its quantities reserved
InitCancel ==
    \E items \in {<<Line("P1", MaxQty)>>, <<Line("P1", MaxQty - 1), Line("P2", 1)>>} :
        /\ products = ReserveAll([p \in Products |->
                                     [stock |-> InitStock(p), reservedStock |-> 0]], items)
        /\ carts = [u \in Users |-> [exists |-> u = "u1", items |-> <<>>]]
        /\ orders = <<preSave(NewOrder("u1", items, CartTotal(items)), 0, 0)>>
        /\ gateway = {}
        /\ req = [r \in Reqs |-> Idle]
        /\ resp = NoResp
        /\ deliveries = <<>>
        /\ dreq = [a \in AReqs |-> AIdle]
        /\ InitBackOffice

\* cancel requests that overlap
NextCancel ==
    \/ \E r \in Reqs, o \in OrderIds, a \in Users \cup {Admin} :
          resp = NoResp /\ CancelRead(r, o, a)
    \/ \E r \in Reqs : CancelRelease(r)
    \/ \E r \in Reqs, rsn \in Reasons : resp = NoResp /\ CancelSave(r, rsn)
    \/ Deliver

SpecCancel == InitCancel /\ [][NextCancel]_vars

\* checkouts that overlap, each with a shipping address the Order schema accepts
NextSameCart ==
    \/ \E r \in Reqs, u \in Users : resp = NoResp /\ CheckoutRead(r, u, TRUE)
    \/ \E r \in Reqs : resp = NoResp /\ CheckoutValidate(r)
    \/ \E r \in Reqs : CheckoutReserve(r)
    \/ \E r \in Reqs : CheckoutCreate(r, TRUE)
    \/ \E r \in Reqs : resp = NoResp /\ CheckoutInsert(r)
    \/ \E r \in Reqs : resp = NoResp /\ CheckoutClear(r)
    \/ Deliver

SpecSameCart == InitConc /\ [][NextSameCart]_vars

\* checkouts reserve on the Product while the inventory manager removes
\* stock, one request at a time
NextRemove ==
    \/ \E r \in Reqs, u \in Users, hasAddr \in BOOLEAN :
          Quiet /\ QuietI /\ CheckoutRead(r, u, hasAddr)
    \/ \E r \in Reqs : CheckoutValidate(r)
    \/ \E r \in Reqs : CheckoutReserve(r)
    \/ \E r \in Reqs, addrOk \in BOOLEAN : CheckoutCreate(r, addrOk)
    \/ \E r \in Reqs : CheckoutInsert(r)
    \/ \E r \in Reqs : CheckoutClear(r)
    \/ \E r \in IReqs, p \in Products, q \in 0..MaxQty, type \in RemoveTypes :
          Quiet /\ QuietI /\ RemoveStockFind(r, p, q, type)
    \/ \E r \in IReqs : RemoveStockSave(r)
    \/ \E r \in IReqs : RemoveStockProduct(r)
    \/ Deliver

SpecRemove == Init /\ [][NextRemove]_vars

\* a delivery is assigned and carried out while the admin updates, cancels or
\* refunds the order, one request at a time
NextProjection ==
    \/ \E a \in AReqs, o \in OrderIds, partner \in Partners :
          QuietD /\ AssignFind(a, o, partner)
    \/ \E a \in AReqs : AssignSave(a)
    \/ \E a \in AReqs : AssignOrder(a)
    \/ \E d \in DeliveryIds, actor \in Partners \cup {Admin}, s \in DeliveryStatuses :
          QuietD /\ SetStatus(d, actor, s)
    \/ \E d \in DeliveryIds, actor \in Partners \cup {Admin},
          signature \in Signatures, proofImage \in ProofImages :
          QuietD /\ Confirm(d, actor, signature, proofImage)
    \/ \E o \in OrderIds, s \in Statuses : QuietD /\ UpdateStatus(o, s)
    \/ \E o \in OrderIds, a \in Users \cup {Admin}, rsn \in Reasons :
          QuietD /\ Cancel(o, a, rsn)
    \/ \E o \in OrderIds, gwOk \in BOOLEAN : QuietD /\ Refund(o, gwOk)
    \/ Deliver

SpecProjection == InitDelivery /\ [][NextProjection]_vars

\* checkout and payment, confirmed by verify and by payment.captured webhooks
\* in any order and any number while the admin moves the order on, one request
\* at a time
NextCaptured ==
    \/ \E r \in Reqs, u \in Users, hasAddr \in BOOLEAN :
          Quiet /\ CheckoutRead(r, u, hasAddr)
    \/ \E r \in Reqs : CheckoutValidate(r)
    \/ \E r \in Reqs : CheckoutReserve(r)
    \/ \E r \in Reqs, addrOk \in BOOLEAN : CheckoutCreate(r, addrOk)
    \/ \E r \in Reqs : CheckoutInsert(r)
    \/ \E r \in Reqs : CheckoutClear(r)
    \/ \E o \in OrderIds, u \in Users, gwOk \in BOOLEAN :
          Quiet /\ CreatePaymentOrder(o, u, gwOk)
    \/ \E o \in OrderIds, g \in OrderIds, sigOk \in BOOLEAN, gwOk \in BOOLEAN :
          Quiet /\ Verify(o, g, sigOk, gwOk)
    \/ \E g \in OrderIds, sigOk \in BOOLEAN : Quiet /\ WebhookCaptured(g, sigOk)
    \/ \E o \in OrderIds, s \in Statuses : Quiet /\ UpdateStatus(o, s)
    \/ Deliver

SpecCaptured == Init /\ [][NextCaptured]_vars

-----------------------------------------------------------------------------
(* Properties *)

\* units of product p on the lines of an order or a cart
RECURSIVE QtyOf(_, _)
QtyOf(items, p) ==
    IF items = <<>> THEN 0
    ELSE (IF Head(items).product = p THEN Head(items).quantity ELSE 0) + QtyOf(Tail(items), p)

RECURSIVE SumOver(_, _)
SumOver(f, S) ==
    IF S = {} THEN 0
    ELSE LET k == CHOOSE x \in S : TRUE IN f[k] + SumOver(f, S \ {k})

\* sum of quantity * price over the lines
ExpectedTotal(items) ==
    SumOver([k \in DOMAIN items |-> items[k].quantity * items[k].price], DOMAIN items)

\* units of p that all orders together hold on their lines
OrderedQty(p) == SumOver([o \in DOMAIN orders |-> QtyOf(orders[o].items, p)], DOMAIN orders)

\* units of p reserved by the orders other than o that are placed and neither paid
\* nor cancelled
HeldByOthers(o, p) ==
    LET live == {x \in DOMAIN orders \ {o} :
                    orders[x].status = "created" /\ orders[x].payment.status = "pending"}
    IN  SumOver([x \in live |-> QtyOf(orders[x].items, p)], live)

\* position of a status on the path created -> ... -> completed; cancelled is off it
Rank(s) ==
    CASE s = "created" -> 1 [] s = "paid" -> 2 [] s = "packed" -> 3 [] s = "shipped" -> 4
      [] s = "delivered" -> 5 [] s = "completed" -> 6 [] OTHER -> 7

(* C1: every Product satisfies 0 <= reservedStock <= stock in every reachable
   state.  Violated: cancelling a paid order releases a reservation that the
   payment already committed, and a second verify commits twice. *)
C1_StockWithinBounds ==
    \A p \in Products :
        /\ 0 <= products[p].reservedStock
        /\ products[p].reservedStock <= products[p].stock

(* C2: of two concurrent checkouts that each hold a line of quantity 3 for a
   product with stock 5, at most one places its order, and reservedStock never
   exceeds stock.  Violated: both validate before either reserves. *)
C2_OneCheckoutWins ==
    /\ \A p \in Products : products[p].reservedStock <= products[p].stock
    /\ ~ \E o1 \in DOMAIN orders, o2 \in DOMAIN orders :
            /\ o1 # o2
            /\ products["P1"].stock = 5
            /\ QtyOf(orders[o1].items, "P1") = 3
            /\ QtyOf(orders[o2].items, "P1") = 3

(* C3: a checkout validates every line of the cart it read before it reserves
   anything: a request whose cart is missing or empty, or has a line above the
   available stock, answers 400 with no product, order or cart changed, having
   reserved nothing and created no order; and a request starts reserving only
   after every line passed. *)
C3_FailedCheckoutChangesNothing ==
    [][\A r \in Reqs :
        LET l == req[r]
            fits == /\ l.found
                    /\ l.items # <<>>
                    /\ \A k \in DOMAIN l.items :
                          l.items[k].quantity <=
                             l.prods[l.items[k].product].stock
                               - l.prods[l.items[k].product].reservedStock
        IN  /\ (l.pc = "validate" /\ ~fits /\ req'[r] # l)
                  => /\ l.i = 0 /\ l.order = 0
                     /\ req'[r].pc = "idle"
                     /\ resp'.op = "checkout" /\ resp'.code = 400
                     /\ products' = products /\ orders' = orders /\ carts' = carts
            /\ (l.pc # "reserve" /\ req'[r].pc = "reserve")
                  => l.pc = "validate" /\ fits /\ l.i = 0 /\ products' = products
      ]_vars

\* a checkout failed on a cart whose line exceeds what the other order left
C3_Witness ==
    \E u \in Users :
        /\ resp = Resp("checkout", 1, 400)
        /\ InFlight = {}
        /\ Len(orders) = 1
        /\ carts[u].items # <<>>
        /\ FirstShort(carts[u].items, products) # 0

(* C4: a checkout that succeeds (requests not overlapping) answers 201 and
   leaves an order in status created whose items are the cart lines and whose
   totalAmount is the sum of quantity * price, each line product's
   reservedStock raised by the line quantity over what was read, stock
   untouched, and the cart still there and empty. *)
C4_CheckoutCreatesOrder ==
    [][\A r \in Reqs :
        (req[r].pc = "clear" /\ req'[r].pc = "idle") =>
            LET l == req[r]
                o == l.order
            IN  /\ resp' = Resp("checkout", 0, 201)
                /\ o = Len(orders') /\ orders' = orders
                /\ carts[l.user].items = l.items
                /\ orders'[o].user = l.user
                /\ orders'[o].status = "created"
                /\ orders'[o].statusHistory = <<"created">>
                /\ orders'[o].items = l.items
                /\ orders'[o].totalAmount = ExpectedTotal(l.items)
                /\ \A p \in Products :
                      /\ products'[p].reservedStock =
                            l.prods[p].reservedStock + QtyOf(l.items, p)
                      /\ products'[p].stock = l.prods[p].stock
                /\ carts'[l.user] = [exists |-> TRUE, items |-> <<>>]
      ]_vars

\* the cart [(P1,2,100),(P2,1,50)] was checked out: totalAmount 250
C4_Witness ==
    \E o \in DOMAIN orders :
        /\ resp = Resp("checkout", 0, 201)
        /\ orders[o].items = <<[product |-> "P1", quantity |-> 2, price |-> 100],
                               [product |-> "P2", quantity |-> 1, price |-> 50]>>
        /\ orders[o].totalAmount = 250
        /\ orders[o].status = "created"
        /\ carts[orders[o].user] = [exists |-> TRUE, items |-> <<>>]
        /\ products["P1"].reservedStock = 2
        /\ products["P2"].reservedStock = 1

(* C5: whenever an order is cancelled (and no checkout is in flight), the
   reservation it placed is gone: every product's reservedStock is what the
   other live orders hold.  Violated: an admin status update or a refund
   cancels without releasing, and cancelling a paid order releases units that
   the payment already took out. *)
C5_CancelledReleased ==
    \A o \in DOMAIN orders :
        (orders[o].status = "cancelled" /\ InFlight = {}) =>
            \A p \in Products : products[p].reservedStock = HeldByOthers(o, p)

(* C6: confirming payment twice for an order decrements stock once: a product's
   stock never drops below its initial value minus the units on the orders'
   lines.  Violated: verify does not look at payment.status. *)
C6_CommitOnce ==
    \A p \in Products : products[p].stock >= InitStock(p) - OrderedQty(p)

(* C7: every step that completes an order's payment sets status paid and
   paidAt, takes the line quantities out of stock and reservedStock, and
   appends 'paid' to statusHistory.  Violated: the payment.captured webhook
   neither touches the products nor appends to statusHistory. *)
C7_PaidConfirmation ==
    [][\A o \in DOMAIN orders :
        (orders[o].payment.status # "completed" /\ orders'[o].payment.status = "completed")
        => /\ orders'[o].status = "paid"
           /\ orders'[o].payment.paidAt
           /\ orders'[o].statusHistory = Append(orders[o].statusHistory, "paid")
           /\ \A p \in Products :
                 /\ products'[p].stock = products[p].stock - QtyOf(orders[o].items, p)
                 /\ products'[p].reservedStock =
                       products[p].reservedStock - QtyOf(orders[o].items, p)
      ]_vars

(* C8: a cancel request by the owner or an admin on an order in status
   created, paid or packed answers 200, sets status cancelled, stores the
   given reason, appends 'cancelled' to statusHistory and lowers each
   product's reservedStock by the order's quantity of it, stock untouched;
   and only such a request is answered 200 by cancel. *)
C8_CancelEffect ==
    [][\A o \in DOMAIN orders :
        /\ \A a \in Users \cup {Admin}, rsn \in Reasons :
              (/\ Cancel(o, a, rsn)
               /\ a = Admin \/ a = orders[o].user
               /\ orders[o].status \in {"created", "paid", "packed"})
              => /\ resp' = Resp("cancel", o, 200)
                 /\ orders'[o].cancellationReason = rsn
        /\ (resp = NoResp /\ resp' = Resp("cancel", o, 200))
              => /\ orders[o].status \in {"created", "paid", "packed"}
                 /\ orders'[o].status = "cancelled"
                 /\ orders'[o].statusHistory = Append(orders[o].statusHistory, "cancelled")
                 /\ orders'[o].items = orders[o].items
                 /\ \A p \in Products :
                       /\ products'[p].reservedStock =
                             products[p].reservedStock - QtyOf(orders[o].items, p)
                       /\ products'[p].stock = products[p].stock
      ]_vars

\* an order in status created was cancelled with reason "changed mind"
C8_Witness ==
    \E o \in DOMAIN orders :
        /\ resp = Resp("cancel", o, 200)
        /\ orders[o].status = "cancelled"
        /\ orders[o].cancellationReason = "changed mind"
        /\ orders[o].statusHistory = <<"created", "cancelled">>
        /\ Len(orders[o].items) = 2
        /\ \A p \in Products : products[p].reservedStock = 0

(* C9: a cancel request by the owner or an admin on an order in status
   shipped, delivered, completed or cancelled answers 400 and changes no
   order and no product; and cancel answers 400 only for such an order. *)
C9_CancelRejected ==
    [][\A o \in DOMAIN orders :
        /\ \A a \in Users \cup {Admin}, rsn \in Reasons :
              (/\ Cancel(o, a, rsn)
               /\ a = Admin \/ a = orders[o].user
               /\ orders[o].status \in {"shipped", "delivered", "completed", "cancelled"})
              => resp' = Resp("cancel", o, 400)
        /\ (resp = NoResp /\ resp' = Resp("cancel", o, 400))
              => /\ orders[o].status \in {"shipped", "delivered", "completed", "cancelled"}
                 /\ orders' = orders
                 /\ products' = products
                 /\ carts' = carts
      ]_vars

\* a cancel on a shipped order was rejected
C9_Witness ==
    \E o \in DOMAIN orders :
        /\ resp = Resp("cancel", o, 400)
        /\ orders[o].status = "shipped"
        /\ orders[o].cancellationReason = NoReason
        /\ products[orders[o].items[1].product].reservedStock > 0

(* C10: an order's status never moves backwards along created -> paid ->
   packed -> shipped -> delivered -> completed: every change of status other
   than the change to cancelled goes to a later status.  Violated: the admin
   status update takes any status, and verify sets paid from any status. *)
C10_StatusMonotonic ==
    [][\A o \in DOMAIN orders :
        (orders'[o].status # orders[o].status /\ orders'[o].status # "cancelled")
        => Rank(orders'[o].status) > Rank(orders[o].status)
      ]_vars

(* C11: an order enters status cancelled only from created, paid or packed:
   no step takes an order from shipped, delivered or completed to cancelled.
   Violated: the admin status update and the refund look at no status. *)
C11_CancelledOnlyFromOpen ==
    [][\A o \in DOMAIN orders :
        (orders[o].status # "cancelled" /\ orders'[o].status = "cancelled")
        => orders[o].status \in {"created", "paid", "packed"}
      ]_vars

(* C12: completed and cancelled are terminal: a step never changes the status
   of an order that is completed or cancelled.  Violated: the admin status
   update and verify assign a status whatever the current one is. *)
C12_TerminalOrderStatus ==
    [][\A o \in DOMAIN orders :
        orders[o].status \in {"completed", "cancelled"}
        => orders'[o].status = orders[o].status
      ]_vars

(* C16: a verify or a webhook whose signature does not match answers 400 and
   changes no order and no product; and every verify or webhook answered 400
   changed none. *)
C16_BadSignatureRejected ==
    [][/\ \A o \in OrderIds, g \in OrderIds, gwOk \in BOOLEAN :
             Verify(o, g, FALSE, gwOk)
             => /\ resp' = Resp("verify", o, 400)
                /\ orders' = orders /\ products' = products
       /\ \A g \in OrderIds :
             (WebhookCaptured(g, FALSE) \/ WebhookFailed(g, FALSE) \/ WebhookRefund(g, FALSE))
             => /\ resp' = Resp("webhook", g, 400)
                /\ orders' = orders /\ products' = products
       /\ (resp = NoResp /\ resp'.op \in {"verify", "webhook"} /\ resp'.code = 400)
             => orders' = orders /\ products' = products
      ]_vars

\* a verify with a bad signature was rejected on an order that awaits payment
C16_Witness ==
    \E o \in DOMAIN orders :
        /\ resp = Resp("verify", o, 400)
        /\ orders[o].payment.razorpayOrderId = GwId(o)
        /\ orders[o].payment.status = "pending"
        /\ orders[o].status = "created"
        /\ orders[o].statusHistory = <<"created">>
        /\ products["P1"].reservedStock > 0

(* C13: a delivery status update that is answered 200 sets the delivery's
   status to the given one and appends it to the delivery's statusHistory;
   the order becomes packed for picked, shipped for in_transit and
   out_for_delivery, delivered for delivered (actualDeliveryDate set), keeps
   its status otherwise, and its statusHistory gains its status; and an
   update by the admin or the delivery's partner with a valid status is
   answered 200. *)
C13_SetStatusProjects ==
    [][\A d \in DOMAIN deliveries :
        /\ \A actor \in Partners \cup {Admin}, s \in DeliveryStatuses :
              (SetStatus(d, actor, s) /\ (actor = Admin \/ actor = deliveries[d].partner))
              => /\ resp' = Resp("set-status", d, 200)
                 /\ deliveries'[d].status = s
        /\ (resp = NoResp /\ resp' = Resp("set-status", d, 200))
              => LET s == deliveries'[d].status
                     o == deliveries[d].order
                     st == orders'[o].status
                 IN  /\ s \in DeliveryStatuses
                     /\ deliveries'[d].statusHistory = Append(deliveries[d].statusHistory, s)
                     /\ s = "picked" => st = "packed"
                     /\ s \in {"in_transit", "out_for_delivery"} => st = "shipped"
                     /\ s = "delivered" => st = "delivered" /\ deliveries'[d].actualDeliveryDate
                     /\ s \in {"assigned", "failed"} => st = orders[o].status
                     /\ orders'[o].statusHistory = Append(orders[o].statusHistory, st)
      ]_vars

\* assigned -> picked -> in_transit -> delivered took the order through
\* packed, shipped, delivered
C13_Witness ==
    \E d \in DOMAIN deliveries :
        /\ resp = Resp("set-status", d, 200)
        /\ deliveries[d].statusHistory = <<"assigned", "picked", "in_transit", "delivered">>
        /\ deliveries[d].status = "delivered"
        /\ deliveries[d].actualDeliveryDate
        /\ orders[deliveries[d].order].status = "delivered"
        /\ orders[deliveries[d].order].statusHistory =
              <<"created", "packed", "shipped", "delivered">>

(* C14: a confirm that is answered 200 sets the delivery to delivered with
   actualDeliveryDate, stores the signature and the proof given, appends
   'delivered' to the delivery's statusHistory, and sets the order to
   completed in that one step, whatever its status was, with
   delivery.actualDate stamped and the single entry 'completed' appended; and
   a confirm by the admin or the delivery's partner is answered 200. *)
C14_ConfirmCompletes ==
    [][\A d \in DOMAIN deliveries :
        /\ \A actor \in Partners \cup {Admin}, sg \in Signatures, img \in ProofImages :
              (Confirm(d, actor, sg, img) /\ (actor = Admin \/ actor = deliveries[d].partner))
              => /\ resp' = Resp("confirm", d, 200)
                 /\ deliveries'[d].customerSignature = sg
                 /\ deliveries'[d].proofOfDelivery = img
        /\ (resp = NoResp /\ resp' = Resp("confirm", d, 200))
              => LET o == deliveries[d].order
                 IN  /\ deliveries'[d].status = "delivered"
                     /\ deliveries'[d].actualDeliveryDate
                     /\ deliveries'[d].statusHistory =
                           Append(deliveries[d].statusHistory, "delivered")
                     /\ orders'[o].status = "completed"
                     /\ orders'[o].delivery.actualDate
                     /\ orders'[o].statusHistory =
                           Append(orders[o].statusHistory, "completed")
      ]_vars

\* a delivery that was only assigned was confirmed: the order went from
\* created to completed
C14_Witness ==
    \E d \in DOMAIN deliveries :
        /\ resp = Resp("confirm", d, 200)
        /\ deliveries[d].statusHistory = <<"assigned", "delivered">>
        /\ deliveries[d].customerSignature = "sig"
        /\ deliveries[d].proofOfDelivery = "img"
        /\ deliveries[d].actualDeliveryDate
        /\ orders[deliveries[d].order].status = "completed"
        /\ orders[deliveries[d].order].delivery.actualDate
        /\ orders[deliveries[d].order].statusHistory = <<"created", "completed">>

(* C15: delivered and failed are terminal for a delivery: a step never
   changes the status of a delivery that is delivered or failed.  Violated:
   the status update takes any valid status whatever the current one is. *)
C15_TerminalDeliveryStatus ==
    [][\A d \in DOMAIN deliveries :
        deliveries[d].status \in {"delivered", "failed"}
        => deliveries'[d].status = deliveries[d].status
      ]_vars

(* C17: assigning a delivery partner never changes an order's status: no
   step of POST /api/delivery/assign and no PUT /api/orders/:id/assign-delivery
   changes the status of any order, whatever that status is. *)
C17_AssignKeepsStatus ==
    [][((resp = NoResp /\ resp'.op \in {"assign", "assign-delivery"}) \/ dreq' # dreq)
       => \A o \in DOMAIN orders : orders'[o].status = orders[o].status
      ]_vars

\* a shipped order was given another partner through both endpoints and is
\* still shipped
C17_Witness ==
    \E o \in DOMAIN orders, d \in DOMAIN deliveries :
        /\ resp = Resp("assign-delivery", o, 200)
        /\ orders[o].status = "shipped"
        /\ orders[o].statusHistory = <<"created", "shipped", "shipped">>
        /\ deliveries[d].order = o
        /\ deliveries[d].partner \in Partners
        /\ orders[o].delivery.partner \in Partners

(* C18: when no assignment is between two of its steps, an order that
   carries a delivery partner has a Delivery of that order with that partner.
   Violated: PUT /api/orders/:id/assign-delivery writes the order's summary
   and creates or updates no Delivery. *)
C18_PartnerHasDelivery ==
    AInFlight = {} =>
        \A o \in DOMAIN orders :
            orders[o].delivery.partner # NoPartner
            => \E d \in DOMAIN deliveries :
                  /\ deliveries[d].order = o
                  /\ deliveries[d].partner = orders[o].delivery.partner

(* C19: an order has at most one Delivery, also when POST /api/delivery/assign
   requests for the same order overlap.  Violated: two requests that both
   find no Delivery both create one. *)
C19_OneDeliveryPerOrder ==
    \A d \in DOMAIN deliveries, e \in DOMAIN deliveries :
        deliveries[d].order = deliveries[e].order => d = e

(* C20: a status update or a confirm by a delivery partner on a delivery of
   another partner is answered 403 and changes no delivery and no order; and
   a status update or confirm answered 403 changed none. *)
C20_PartnerOwnDeliveryOnly ==
    [][\A d \in DOMAIN deliveries :
        /\ \A actor \in Partners \ {deliveries[d].partner} :
              /\ \A s \in DeliveryStatuses :
                    SetStatus(d, actor, s)
                    => /\ resp' = Resp("set-status", d, 403)
                       /\ deliveries' = deliveries /\ orders' = orders
              /\ \A sg \in Signatures, img \in ProofImages :
                    Confirm(d, actor, sg, img)
                    => /\ resp' = Resp("confirm", d, 403)
                       /\ deliveries' = deliveries /\ orders' = orders
        /\ (resp = NoResp /\ resp' \in {Resp("set-status", d, 403), Resp("confirm", d, 403)})
              => deliveries' = deliveries /\ orders' = orders
      ]_vars

\* partner d2 was refused on the delivery of d1
C20_Witness ==
    \E d \in DOMAIN deliveries :
        /\ resp = Resp("confirm", d, 403)
        /\ deliveries[d].partner = "d1"
        /\ deliveries[d].status = "picked"
        /\ orders[deliveries[d].order].status = "packed"


\* the last entry of a product's stockHistory, if the step appended one
Appended(p) ==
    IF Len(inventory'[p].stockHistory) = Len(inventory[p].stockHistory) + 1
       /\ SubSeq(inventory'[p].stockHistory, 1, Len(inventory[p].stockHistory))
              = inventory[p].stockHistory
    THEN inventory'[p].stockHistory[Len(inventory'[p].stockHistory)]
    ELSE NoEntry

\* C21: every reservation made by checkout appends a 'reserved' entry, and every
\* release made by a cancellation a 'released' entry, to the stockHistory of
\* the product's Inventory record.
C21_ReservationsRecorded ==
    [][\A p \in Products :
          /\ products'[p].reservedStock > products[p].reservedStock
                => Appended(p).type = "reserved"
          /\ (/\ products'[p].reservedStock < products[p].reservedStock
              /\ \E o \in DOMAIN orders :
                    orders[o].status # "cancelled" /\ orders'[o].status = "cancelled")
                => Appended(p).type = "released"]_vars


\* C22: each inventory operation appends exactly one stockHistory entry that
\* fits the change: an adjust sets Inventory.totalStock and Product.stock to the
\* new total and records 'adjustment' with the signed change, add-stock records
\* +q and remove-stock -q, every entry has newStock = previousStock + quantity
\* with newStock the resulting totalStock, and stored entries are never
\* modified or removed.
C22_HistoryConsistent ==
    [][\A p \in Products :
          LET e == Appended(p)
              old == inventory[p]
              new == inventory'[p]
          IN  /\ \/ (new.stockHistory = old.stockHistory /\ new.totalStock = old.totalStock)
                 \/ e # NoEntry
              /\ e # NoEntry =>
                    /\ e.type \in {"in", "adjustment"} \cup RemoveTypes
                    /\ e.previousStock = old.totalStock
                    /\ e.newStock = e.previousStock + e.quantity
                    /\ e.newStock = new.totalStock
                    /\ e.type = "in" => e.quantity >= 1
                    /\ e.type \in RemoveTypes => e.quantity <= -1
              /\ (resp' # resp /\ resp'.code = 200 /\ resp'.id = PId(p)) =>
                    \E r \in IReqs :
                          /\ ireq[r].pc # "idle" /\ ireq'[r] = IIdle
                          /\ ireq[r].product = p /\ ireq[r].op = resp'.op
                          /\ ireq[r].entry # NoEntry =>
                                /\ products'[p].stock = new.totalStock
                                /\ new.stockHistory # <<>>
                                /\ new.stockHistory[Len(new.stockHistory)] = ireq[r].entry
                                /\ new.totalStock = ireq[r].totalStock
                                /\ resp'.op = "add-stock" => ireq[r].entry.type = "in"
                                /\ resp'.op = "adjust" => ireq[r].entry.type = "adjustment"
                                /\ resp'.op = "remove-stock" =>
                                      ireq[r].entry.type \in RemoveTypes]_vars

\* an add-stock and then an adjust downwards of P1 were both answered 200
C22_Witness ==
    /\ resp = Resp("adjust", PId("P1"), 200)
    /\ Len(inventory["P1"].stockHistory) = 2
    /\ inventory["P1"].stockHistory[1].type = "in"
    /\ inventory["P1"].stockHistory[2].type = "adjustment"
    /\ inventory["P1"].stockHistory[2].quantity < 0
    /\ products["P1"].stock = inventory["P1"].totalStock


\* C23: an adjust (PUT /inventory/:productId) whose totalStock is negative fails
\* and leaves Product.stock and the Inventory record (totalStock, stockHistory)
\* as they were: no step of such a request changes either.
C23_InvalidAdjustChangesNothing ==
    [][\A r \in IReqs :
          (ireq[r].pc # "idle" /\ ireq[r].op = "adjust" /\ ireq[r].totalStock < 0)
             => (products' = products /\ inventory' = inventory)]_vars


\* the quantities a stockHistory records, summed
RECURSIVE SumQuantity(_)
SumQuantity(h) == IF h = <<>> THEN 0 ELSE Head(h).quantity + SumQuantity(Tail(h))

\* C24: concurrent add-stock requests for one product lose no update: once all
\* are answered, Inventory.totalStock and Product.stock have both grown by the
\* sum of the quantities added, whatever the interleaving of reads and writes.
C24_NoLostAddStock ==
    IInFlight = {} =>
       \A p \in Products :
          /\ inventory[p].totalStock = InitStock(p) + SumQuantity(inventory[p].stockHistory)
          /\ products[p].stock = InitStock(p) + SumQuantity(inventory[p].stockHistory)


\* the lines of other products, in order
RECURSIVE Others(_, _)
Others(items, p) ==
    IF items = <<>> THEN <<>>
    ELSE IF Head(items).product = p THEN Others(Tail(items), p)
    ELSE <<Head(items)>> \o Others(Tail(items), p)

\* C25: cart addItem keeps at most one line per product: adding a product
\* already in the cart sums the quantities into the existing line and
\* re-stamps its price; the add is rejected with 400, the cart unchanged, when
\* the requested or the merged quantity exceeds the product's availableStock.
C25_AddItemMerges ==
    [][(resp' # resp /\ resp'.op = "cart-add") =>
          /\ resp'.code \in {200, 400}
          /\ resp'.code = 400 => carts' = carts
          /\ resp'.code = 200 =>
                \E u \in Users, p \in Products :
                   LET old == carts[u].items
                       new == carts'[u].items
                       line == new[existingItemIndex(new, p)]
                   IN  /\ resp'.id = PId(p)
                       /\ \A v \in Users \ {u} : carts'[v] = carts[v]
                       /\ Cardinality({i \in DOMAIN new : new[i].product = p}) = 1
                       /\ \E q \in 1..MaxQty : QtyOf(new, p) = QtyOf(old, p) + q
                       /\ QtyOf(new, p) <= availableStock(products[p])
                       /\ line.price = (IF prices[p].discountPrice > 0
                                        THEN prices[p].discountPrice
                                        ELSE prices[p].price)
                       /\ Others(new, p) = Others(old, p)
                       /\ QtyOf(old, p) > 0 => Len(new) = Len(old)
          /\ \A u \in Users, p \in Products :
                Cardinality({i \in DOMAIN carts'[u].items :
                                carts'[u].items[i].product = p}) <= 1]_vars

\* P1 was added to u1's cart at the list price and again when on sale: one
\* line, both quantities, the sale price
C25_Witness ==
    /\ resp = Resp("cart-add", PId("P1"), 200)
    /\ prices["P1"].discountPrice > 0
    /\ Len(carts["u1"].items) = 2
    /\ carts["u1"].items[1].product = "P1"
    /\ carts["u1"].items[1].quantity = MaxQty + 1
    /\ carts["u1"].items[1].price = prices["P1"].discountPrice
    /\ carts["u1"].items[2].price = Price("P2")


\* the product reviews of product p
ReviewsOf(all, p) == {rv \in all : rv.type = "product" /\ rv.product = p}

\* C26: a second product review by the same user for the same product is
\* rejected with 400, creates no review and changes no rating; after the first
\* review of a product its ratings.average is exactly that review's rating and
\* its ratings.count is 1.
C26_OneReviewPerUserAndProduct ==
    [][(resp' # resp /\ resp'.op = "review-product") =>
          \E p \in Products :
             /\ resp'.id = PId(p)
             /\ resp'.code \in {201, 400, 500}
             /\ resp'.code = 400 =>
                   /\ ReviewsOf(reviews, p) # {}
                   /\ reviews' = reviews /\ ratings' = ratings
             /\ resp'.code = 201 =>
                   \E rv \in reviews' \ reviews :
                      /\ reviews' = reviews \cup {rv}
                      /\ rv.type = "product" /\ rv.product = p
                      /\ \A old \in ReviewsOf(reviews, p) : old.user # rv.user
                      /\ ReviewsOf(reviews, p) = {} =>
                            ratings'[p] = Rating(10 * rv.rating, 1)
             /\ \A u \in Users :
                   Cardinality({rv \in ReviewsOf(reviews', p) : rv.user = u}) <= 1]_vars

\* u1 reviewed the new product P1 with 5 and tried again
C26_Witness ==
    /\ resp = Resp("review-product", PId("P1"), 400)
    /\ reviews = {Review("product", "P1", NoPartner, 0, "u1", 5, FALSE)}
    /\ ratings["P1"] = Rating(50, 1)

\* rating r is what the approved reviews of target t amount to: their number,
\* and their mean to the nearest tenth (0 when there is none)
RatingFits(all, t, r) ==
    LET S == ApprovedOf(all, t)
        n == Cardinality(S)
        d == 10 * SumRatings(S) - r.average * n
    IN  /\ r.count = n
        /\ IF n = 0 THEN r.average = 0
           ELSE 2 * d <= n /\ 2 * (0 - d) <= n

ReviewOps == {"review-product", "review-delivery", "review-update",
              "review-delete", "review-moderate"}

\* C27: after each review create, update, delete or moderate operation (run one
\* after the other) the target's stored count is the number of its approved
\* reviews and its stored average their mean rounded to one decimal, 0 when no
\* approved review remains.
C27_RatingsMatchReviews ==
    [][(resp' # resp /\ resp'.op \in ReviewOps /\ reviews' # reviews) =>
          \A rv \in (reviews' \ reviews) \cup (reviews \ reviews') :
             RatingFits(reviews', TargetOf(rv), ratings'[TargetOf(rv)])]_vars

\* C28: a delivery review is created only when the requester owns the order, the
\* order is delivered or completed, a delivery partner is assigned and the
\* order has no delivery review yet; otherwise the request fails and no review
\* is created and no rating changes.
C28_DeliveryReviewGuarded ==
    [][(resp' # resp /\ resp'.op = "review-delivery") =>
          LET o == resp'.id
              reviewable ==
                 /\ o \in DOMAIN orders
                 /\ orders[o].status \in {"delivered", "completed"}
                 /\ orders[o].delivery.partner # NoPartner
                 /\ ~\E rv \in reviews : rv.type = "delivery" /\ rv.order = o
          IN  /\ resp'.code \in {201, 400, 403, 404, 500}
              /\ resp'.code # 201 => reviews' = reviews /\ ratings' = ratings
              /\ ~reviewable => resp'.code \in {400, 403, 404}
              /\ resp'.code = 404 <=> (o # 0 /\ o \notin DOMAIN orders)
              /\ resp'.code = 201 =>
                    /\ reviewable
                    /\ \E rv \in reviews' \ reviews :
                          /\ reviews' = reviews \cup {rv}
                          /\ rv.type = "delivery" /\ rv.order = o
                          /\ rv.user = orders[o].user
                          /\ rv.deliveryPartner = orders[o].delivery.partner
                          /\ \A t \in Targets \ {rv.deliveryPartner} :
                                ratings'[t] = ratings[t]]_vars

\* u1 reviewed the delivery of the order d1 brought
C28_Witness ==
    /\ resp = Resp("review-delivery", 1, 201)
    /\ orders[1].status = "delivered"
    /\ Review("delivery", NoProduct, "d1", 1, "u1", 4, TRUE) \in reviews
    /\ ratings["d1"] = Rating(40, 1)


\* C29: every order gets an orderNumber at creation that no other order
\* carries, also when checkouts overlap, and no later save of the order (status
\* update, payment, cancellation, delivery assignment) changes it.
C29_OrderNumberUniqueAndFixed ==
    [][/\ \A o \in DOMAIN orders :
             o \in DOMAIN orders' /\ orders'[o].orderNumber = orders[o].orderNumber
       /\ \A o \in DOMAIN orders' : orders'[o].orderNumber # NoNumber
       /\ \A a, b \in DOMAIN orders' :
             a # b => orders'[a].orderNumber # orders'[b].orderNumber]_vars

\* two overlapping checkouts both counted no order and were told apart by the
\* millisecond; the first order was then paid and the second cancelled
C29_Witness ==
    /\ Len(orders) = 2
    /\ orders[1].orderNumber[2] = orders[2].orderNumber[2]
    /\ orders[1].status = "paid"
    /\ orders[2].status = "cancelled"


\* the quantity of p on the orders that are neither paid nor cancelled
Outstanding(p) ==
    LET open == {o \in DOMAIN orders : orders[o].status \notin {"paid", "cancelled"}}
    IN  SumOver([o \in open |-> QtyOf(orders[o].items, p)], open)

\* C30: whenever no request is being served, each product's reservedStock is
\* the total quantity of that product on the orders that were created and are
\* neither paid nor cancelled; cancelling a paid order takes nothing from the
\* reservations of other orders.
C30_ReservedIsOutstanding ==
    Quiet => \A p \in Products : products[p].reservedStock = Outstanding(p)


\* C31: a verify request marks an order paid (answers 200) only when the signed
\* gateway order id is the one recorded on that order by create-order, which
\* only the order's owner can have asked for: a signature obtained for one
\* order does not mark another order paid.  The handler never reads the
\* requester, so the request carries none.
C31_VerifyBoundToOrder ==
    [][resp'.op = "verify" /\ resp'.code = 200 =>
          orders'[resp'.id].payment.razorpayOrderId =
              orders[resp'.id].payment.razorpayOrderId]_vars


\* C32: when cancel requests for one order overlap, each line's reservation
\* is released once: reservedStock goes down by the line quantity and not by
\* twice the quantity, so it never falls below what other orders hold (nothing,
\* where the order is the only one).
C32_CancelReleasesOnce ==
    \A p \in Products : products[p].reservedStock >= 0


\* what user u's one cart asks of product p: the quantity on the cart, or on
\* the order made from it once the cart is cleared
Wanted(u, p) ==
    LET mine == {o \in DOMAIN orders : orders[o].user = u}
    IN  IF carts[u].items # <<>> THEN QtyOf(carts[u].items, p)
        ELSE IF mine = {} THEN 0
        ELSE QtyOf(orders[CHOOSE o \in mine : \A x \in mine : o <= x].items, p)

\* C33: checkouts of one user that overlap on the same non-empty cart create at
\* most one order and reserve the cart's quantities at most once (carts are
\* not refilled here, so each user has one cart to check out).
C33_OneOrderPerCart ==
    /\ \A u \in Users : Cardinality({o \in DOMAIN orders : orders[o].user = u}) <= 1
    /\ \A p \in Products :
          products[p].reservedStock <= SumOver([u \in Users |-> Wanted(u, p)], Users)


\* C34: an add-stock of quantity q that succeeds leaves Product.stock exactly q
\* above its value before the request (requests one at a time), also when the
\* product had no Inventory record or its stock had moved since the record was
\* written.
C34_AddStockAddsToProduct ==
    [][\A r \in IReqs :
          ireq[r].pc = "product" /\ ireq[r].op = "add-stock"
          /\ resp'.op = "add-stock" /\ resp'.code = 200
          => products'[ireq[r].product].stock =
                 products[ireq[r].product].stock + ireq[r].entry.quantity]_vars


\* C35: remove-stock never removes reserved units: a removal that succeeds
\* leaves Product.stock at or above Product.reservedStock, reservations made
\* by checkouts included.
C35_RemoveKeepsReserved ==
    [][resp'.op = "remove-stock" /\ resp'.code = 200 =>
          \A p \in Products : products'[p].stock >= products'[p].reservedStock]_vars


\* C36: in every reachable state the last entry of an order's statusHistory
\* carries the order's current status, and every entry carries one of the seven
\* order statuses.
C36_HistoryTracksStatus ==
    \A o \in DOMAIN orders :
        /\ orders[o].statusHistory # <<>>
        /\ orders[o].statusHistory[Len(orders[o].statusHistory)] = orders[o].status
        /\ \A k \in DOMAIN orders[o].statusHistory : orders[o].statusHistory[k] \in Statuses


\* C37: whenever a Delivery is delivered, its Order is delivered or completed,
\* in every state reached by delivery status updates and confirmations, admin
\* status updates, cancellation and refund.
C37_DeliveredProjectsToOrder ==
    \A d \in DOMAIN deliveries :
        deliveries[d].status = "delivered" =>
            orders[deliveries[d].order].status \in {"delivered", "completed"}


\* C38: a payment.captured webhook for an order whose payment is already
\* completed changes nothing on the order or on any product: after a verify,
\* or after an earlier webhook, it is a no-op.
C38_CapturedAfterPaidIsNoOp ==
    [][resp'.op = "webhook" /\ resp'.code = 200
       /\ FindByGwOrder(resp'.id) # 0
       /\ orders[FindByGwOrder(resp'.id)].payment.status = "completed"
       => orders' = orders /\ products' = products]_vars

\* a webhook was answered for an order that verify had paid before
C38_Witness ==
    /\ resp.op = "webhook" /\ resp.code = 200
    /\ FindByGwOrder(resp.id) # 0
    /\ orders[FindByGwOrder(resp.id)].payment.status = "completed"
    /\ orders[FindByGwOrder(resp.id)].statusHistory = <<"created", "paid">>
    /\ \E p \in Products : products[p].stock < InitStock(p)

=============================================================================
